---- MODULE Spec2Model ----
(***************************************************************************)
(* A model of the call-graph engine of pyxray: the reachability detector   *)
(* (scripts/reach_sane.py), the call-chain / centrality calculator         *)
(* (scripts/call_chain.py), the multi-package stitcher (scripts/stitch.py) *)
(* and the native library merger (scripts/unify_cg_all_binary.py).         *)
(*                                                                         *)
(* Every object of the program is one variable holding a record whose      *)
(* fields carry the names of the object's attributes.  Documents (JSON     *)
(* files) are variables too.  A JSON object whose iteration order matters  *)
(* (the node table) is a sequence of records in file order; the decimal    *)
(* string keys of a node table are modelled by the integers they denote    *)
(* (the code reads them with int() and writes them with str()/json).       *)
(***************************************************************************)
EXTENDS Integers, Sequences, FiniteSets, TLC

VARIABLES
    partial_cg_files,  \* the package documents at MyStitcher.cg_paths
    stats_file,        \* the document at MyStitcher.stats_file
    stitched_cg_file,  \* the document at MyStitcher.output_file = Unifier.pycg_file
    socg_files,        \* the native documents at Unifier.socg_files, in that order
    unified_cg_file,   \* the document the unifier's result is written to,
                       \* the one at ReachabilityDetector.unified_cg_path
    reached_cg_file,   \* the document at ReachabilityDetector.output
    st,                \* the MyStitcher object (pc = position in stitch())
    un,                \* the Unifier object (pc = position in unify())
    rd,                \* the ReachabilityDetector object (pc = position in reach())
    cc,                \* the ChainCalculator object (pc = position in process())
    bridges_file,      \* the document at Augmentor.bridges_file
    augmented_cg_files,\* the package documents at the paths of Augmentor.pkg2aug
    ag,                \* the Augmentor object (pc = position in augment())
    us,                \* the UnifiedStitcher objects, one per task of main's pool
                       \* (pc = position in process())
    partial_cg_root,   \* the documents <partial_cg_root>/<package>/cg.json
    bridges_root,      \* the documents <bridges_root>/<package>/bridges.json
    bcg_root,          \* the documents <bcg_root>/<package>/<lib>.json
    augmented_cg_root, \* the directories <augmented_cg_root>/<application>
    augstitched_cg_root,\* the directories <augstitched_cg_root>/<application>
    unified_cg_root,   \* the documents <unified_cg_root>/<package>/unified.json
    reached_cg_root,   \* the documents <reached_cg_root>/<package>/reached.json
    fr                 \* the FullReachability object (pc = position in process())

vars == <<partial_cg_files, stitched_cg_file, socg_files, unified_cg_file,
          reached_cg_file, st, un, rd, cc, bridges_file, augmented_cg_files, ag,
          stats_file, us, partial_cg_root, bridges_root, bcg_root, augmented_cg_root,
          augstitched_cg_root, unified_cg_root, reached_cg_root, fr>>

\* the task objects and the batch driver, and the document trees they work on
batch_vars == <<us, partial_cg_root, bridges_root, bcg_root, augmented_cg_root,
                augstitched_cg_root, unified_cg_root, reached_cg_root, fr>>

\* what a step of one object leaves alone: the other objects and their documents
not_ag == <<partial_cg_files, stitched_cg_file, socg_files, unified_cg_file,
            reached_cg_file, st, un, rd, cc, stats_file, batch_vars>>
not_rd == <<partial_cg_files, stitched_cg_file, socg_files, st, un, cc,
            bridges_file, augmented_cg_files, ag, stats_file, batch_vars>>
not_cc == <<partial_cg_files, stitched_cg_file, socg_files, unified_cg_file, st, un, rd,
            bridges_file, augmented_cg_files, ag, stats_file, batch_vars>>
not_st == <<socg_files, unified_cg_file, reached_cg_file, un, rd, cc,
            bridges_file, augmented_cg_files, ag, batch_vars>>
not_un == <<partial_cg_files, socg_files, reached_cg_file, st, rd, cc,
            bridges_file, augmented_cg_files, ag, stats_file, batch_vars>>

\* Python's None, also the value of an absent key or an absent file.
None == "None"
\* an object that was not constructed
Absent == [pc |-> "absent"]

\* no task and no batch driver runs, and their document trees are not there
NoBatch ==
    /\ us = Absent /\ fr = Absent
    /\ partial_cg_root = None /\ bridges_root = None /\ bcg_root = None
    /\ augmented_cg_root = None /\ augstitched_cg_root = None
    /\ unified_cg_root = None /\ reached_cg_root = None

(***************************************************************************)
(* Bounds of the model.                                                    *)
(***************************************************************************)
\* largest number of nodes of an enumerated call graph document
MaxNodes == 2
\* largest number of distinct edges of an enumerated call graph document
MaxEdges == 2

(***************************************************************************)
(* Dictionaries (Python dict): functions over the set of their keys.       *)
(***************************************************************************)
EmptyDict == <<>>

Put(d, k, v) == [x \in (DOMAIN d) \cup {k} |-> IF x = k THEN v ELSE d[x]]

Get(d, k, default) == IF k \in DOMAIN d THEN d[k] ELSE default

(***************************************************************************)
(* Input documents: unified call graphs.                                   *)
(***************************************************************************)
\* the application under analysis and one of its dependencies
AppPackage == "app:1.0"
DepPackage == "dep:1.0"
\* a second application
ToolPackage == "tool:1.0"
Packages == {AppPackage, DepPackage}
\* shared libraries
Libraries == {"libA.so"}
\* symbol names of the enumerated unified graphs
SymbolNames == {"app.main", "dep.vuln"}

\* A node of a unified call graph: {name, package} or {name, library}.
PackageNode(i, n, p) == [idx |-> i, name |-> n, package |-> p, library |-> None]
LibraryNode(i, n, l) == [idx |-> i, name |-> n, package |-> None, library |-> l]

\* The owners a node can have: a package or a library.
Owners == [package : Packages, library : {None}]
            \cup [package : {None}, library : Libraries]

\* Node tables of n nodes with ids 0..n-1 in file order: the unifier hands
\* out ids from a counter and appends to the table in that order, the nodes
\* of the native documents before the nodes of the packages.
NodeTables(names, n) ==
    { [i \in 1..n |-> [idx |-> i - 1, name |-> nm[i],
                       package |-> ow[i].package, library |-> ow[i].library]] :
        nm \in [1..n -> names],
        ow \in { o \in [1..n -> Owners] :
                   \A i, j \in 1..n : (i < j /\ o[i].library = None) => o[j].library = None } }

\* Edge sets over ids 0..n-1 with at most MaxEdges distinct edges.  The edge
\* list of a document is modelled by the set of its edges: reachability and
\* the filter of generate_final_callgraph look at each edge on its own.
EdgeSets(n) ==
    { E \in SUBSET ((0..(n-1)) \X (0..(n-1))) : Cardinality(E) <= MaxEdges }

\* app.main -> app.helper -> dep.vuln, the application owning the first two
ExampleGraph ==
    [ nodes |-> << PackageNode(0, "app.main", AppPackage),
                   PackageNode(1, "app.helper", AppPackage),
                   PackageNode(2, "dep.vuln", DepPackage) >>,
      edges |-> { <<0, 1>>, <<1, 2>> } ]

\* a chain that leaves the application at once and ends in native code
ExampleGraphNative ==
    [ nodes |-> << LibraryNode(0, "dep.vuln", "libA.so"),
                   PackageNode(1, "app.main", AppPackage),
                   PackageNode(2, "dep.helper", DepPackage) >>,
      edges |-> { <<1, 2>>, <<2, 0>> } ]

\* app.main calls dep.vuln itself and through app.helper
ExampleGraphShortcut ==
    [ nodes |-> ExampleGraph.nodes, edges |-> ExampleGraph.edges \cup { <<0, 2>> } ]

\* app.main reaches dep.vuln through either of two helpers; app.other does not
ExampleGraphDiamond ==
    [ nodes |-> << PackageNode(0, "app.main", AppPackage),
                   PackageNode(1, "app.helper", AppPackage),
                   PackageNode(2, "dep.helper", DepPackage),
                   PackageNode(3, "dep.vuln", DepPackage),
                   PackageNode(4, "app.other", AppPackage) >>,
      edges |-> { <<0, 1>>, <<0, 2>>, <<1, 3>>, <<2, 3>>, <<4, 1>>, <<1, 4>> } ]

\* app.main calls nothing; the recursive app.helper calls dep.vuln
ExampleGraphRecursive ==
    [ nodes |-> ExampleGraph.nodes, edges |-> { <<1, 1>>, <<1, 2>> } ]

ExampleGraphs ==
    {ExampleGraph, ExampleGraphNative, ExampleGraphShortcut, ExampleGraphDiamond,
     ExampleGraphRecursive}

\* Every call graph of at most MaxNodes nodes and MaxEdges edges, and the
\* larger graphs above.
CallGraphs ==
    UNION { { [nodes |-> t, edges |-> E] :
                t \in NodeTables(SymbolNames, n), E \in EdgeSets(n) } : n \in 0..MaxNodes }
      \cup ExampleGraphs

(***************************************************************************)
(* networkx                                                                *)
(***************************************************************************)
Range(f) == { f[x] : x \in DOMAIN f }

\* nx.DiGraph after add_node for every id of `nodes` (in that order) and
\* add_edge for every edge.  The edges of a document join ids of its own node
\* table (the unifier maps both ends through the table), so add_edge adds
\* no node.
DiGraph(nodes, edges) == [nodes |-> nodes, edges |-> edges]

RECURSIVE ReachFrom(_, _)
\* the nodes reached from the set S along edges of E, S included
ReachFrom(E, S) ==
    LET T == S \cup { e[2] : e \in { f \in E : f[1] \in S } }
    IN  IF T = S THEN S ELSE ReachFrom(E, T)

Descendants_one_hop(G, source) ==
    { e[2] : e \in { f \in G.edges : f[1] = source } } \ {source}

\* nx.descendants(G, source): every node reachable from source, source excluded
Descendants(G, source) == ReachFrom(G.edges, {source}) \ {source}

(***************************************************************************)
(* ReachabilityDetector                                                    *)
(***************************************************************************)
\* one iteration of the loop of create_graph over the node table
rd_create_graph_step(acc, v) ==
    [ n2pkg |-> IF v.library = None THEN Put(acc.n2pkg, v.name, v.package)
                                    ELSE acc.n2pkg,
      idx2n |-> Put(acc.idx2n, v.idx, v.name),
      n2idx |-> Put(acc.n2idx, v.name, v.idx),
      nodes |-> IF v.idx \in Range(acc.nodes) THEN acc.nodes ELSE Append(acc.nodes, v.idx) ]

RECURSIVE rd_create_graph_loop(_, _, _)
rd_create_graph_loop(nodes, i, acc) ==
    IF i > Len(nodes) THEN acc
    ELSE rd_create_graph_loop(nodes, i + 1, rd_create_graph_step(acc, nodes[i]))

\* create_graph: the name tables and the DiGraph of the loaded document
rd_create_graph(callgraph) ==
    LET acc == rd_create_graph_loop(callgraph.nodes, 1,
                   [n2pkg |-> EmptyDict, idx2n |-> EmptyDict,
                    n2idx |-> EmptyDict, nodes |-> <<>>])
    IN  [ n2pkg |-> acc.n2pkg, idx2n |-> acc.idx2n, n2idx |-> acc.n2idx,
          graph |-> DiGraph(acc.nodes, callgraph.edges) ]

\* find_entrypoints taking the nodes of every package
find_entrypoints_any_package(n2pkg, n2idx, package) ==
    { n2idx[n] : n \in DOMAIN n2pkg }

\* find_entrypoints: the ids n2idx gives for the names n2pkg maps to the package
find_entrypoints(n2pkg, n2idx, package) ==
    { n2idx[n] : n \in { m \in DOMAIN n2pkg : n2pkg[m] = package } }

\* every node of the graph taken as reachable
calculate_reachable_every_node(graph, entrypoints) == Range(graph.nodes)

calculate_reachable_drop_self(graph, entrypoints) ==
    UNION { Descendants(graph, idx) : idx \in entrypoints }

\* calculate_reachable: the descendants of every entrypoint, and the entrypoint
calculate_reachable(graph, entrypoints) ==
    UNION { Descendants(graph, idx) \cup {idx} : idx \in entrypoints }

generate_final_callgraph_all_edges(callgraph, reachable_idxs) ==
    [ nodes |-> SelectSeq(callgraph.nodes, LAMBDA v : v.idx \in reachable_idxs),
      edges |-> callgraph.edges ]

\* generate_final_callgraph: the nodes and the edges inside reachable_idxs
generate_final_callgraph(callgraph, reachable_idxs) ==
    [ nodes |-> SelectSeq(callgraph.nodes, LAMBDA v : v.idx \in reachable_idxs),
      edges |-> { e \in callgraph.edges :
                    e[1] \in reachable_idxs /\ e[2] \in reachable_idxs } ]

\* the edges for which generate_final_callgraph logs
\* 'dst of edge ... is not in reachable nodes while src is'
rd_warning_edges(callgraph, reachable_idxs) ==
    { e \in callgraph.edges : ~ (e[1] \in reachable_idxs /\ e[2] \in reachable_idxs)
                               /\ e[1] \in reachable_idxs /\ e[2] \notin reachable_idxs }

\* ReachabilityDetector.__init__
rd_new(package) ==
    [ pc |-> "init", package |-> package, callgraph |-> None, graph |-> None,
      entrypoints |-> None, reachable_idxs |-> {},
      final_callgraph |-> [nodes |-> <<>>, edges |-> {}],
      n2idx |-> EmptyDict, idx2n |-> EmptyDict, n2pkg |-> EmptyDict,
      warnings |-> {} ]

rd_load_callgraph ==
    /\ rd.pc = "init"
    /\ rd' = [rd EXCEPT !.pc = "load_callgraph", !.callgraph = unified_cg_file]
    /\ UNCHANGED <<unified_cg_file, reached_cg_file, not_rd>>

rd_do_create_graph ==
    /\ rd.pc = "load_callgraph"
    /\ LET r == rd_create_graph(rd.callgraph)
       IN  rd' = [rd EXCEPT !.pc = "create_graph", !.n2pkg = r.n2pkg,
                            !.idx2n = r.idx2n, !.n2idx = r.n2idx, !.graph = r.graph]
    /\ UNCHANGED <<unified_cg_file, reached_cg_file, not_rd>>

rd_do_find_entrypoints ==
    /\ rd.pc = "create_graph"
    /\ rd' = [rd EXCEPT !.pc = "find_entrypoints",
                        !.entrypoints = find_entrypoints(rd.n2pkg, rd.n2idx, rd.package)]
    /\ UNCHANGED <<unified_cg_file, reached_cg_file, not_rd>>

rd_do_calculate_reachable ==
    /\ rd.pc = "find_entrypoints"
    /\ rd' = [rd EXCEPT !.pc = "calculate_reachable",
                        !.reachable_idxs = calculate_reachable(rd.graph, rd.entrypoints)]
    /\ UNCHANGED <<unified_cg_file, reached_cg_file, not_rd>>

\* generate_final_callgraph and the write of the result to self.output
rd_do_generate_final_callgraph ==
    /\ rd.pc = "calculate_reachable"
    /\ LET final == generate_final_callgraph(rd.callgraph, rd.reachable_idxs)
       IN  /\ rd' = [rd EXCEPT !.pc = "done", !.final_callgraph = final,
                               !.warnings = rd_warning_edges(rd.callgraph, rd.reachable_idxs)]
           /\ reached_cg_file' = final
    /\ UNCHANGED <<unified_cg_file, not_rd>>

ReachInit ==
    /\ unified_cg_file \in CallGraphs
    /\ reached_cg_file = None
    /\ rd = rd_new(AppPackage)
    /\ cc = Absent
    /\ partial_cg_files = None /\ stitched_cg_file = None /\ socg_files = None
    /\ stats_file = None
    /\ st = Absent /\ un = Absent
    /\ bridges_file = None /\ augmented_cg_files = None /\ ag = Absent
    /\ NoBatch

ReachNext ==
    \/ rd_load_callgraph
    \/ rd_do_create_graph
    \/ rd_do_find_entrypoints
    \/ rd_do_calculate_reachable
    \/ rd_do_generate_final_callgraph

\* ReachabilityDetector.reach() on any unified call graph
Spec == ReachInit /\ [][ReachNext]_vars

(***************************************************************************)
(* ChainCalculator                                                         *)
(***************************************************************************)
\* The quotient n / d of two counts (a Python float), kept as the pair.
Ratio(n, d) == [num |-> n, den |-> d]
\* the number 0 that __init__ stores in centrality
Zero == Ratio(0, 1)

\* symbol_idx = None (the ids of a document are 0, 1, ...)
NoIdx == -1

cc_is_symbol_any(name, symbol) == TRUE

\* create_graph: `name == self.symbol`
cc_is_symbol(name, symbol) == name = symbol

\* one iteration of the loop of create_graph over the node table
cc_create_graph_step(acc, v, symbol) ==
    [ n2pkg |-> IF v.library = None
                THEN Put(acc.n2pkg, v.name, IF v.package = None THEN "foo" ELSE v.package)
                ELSE acc.n2pkg,
      symbol_idx |-> IF cc_is_symbol(v.name, symbol) THEN v.idx ELSE acc.symbol_idx,
      idx2n |-> Put(acc.idx2n, v.idx, v.name),
      n2idx |-> Put(acc.n2idx, v.name, v.idx),
      nodes |-> IF v.idx \in Range(acc.nodes) THEN acc.nodes ELSE Append(acc.nodes, v.idx) ]

RECURSIVE cc_create_graph_loop(_, _, _, _)
cc_create_graph_loop(nodes, i, acc, symbol) ==
    IF i > Len(nodes) THEN acc
    ELSE cc_create_graph_loop(nodes, i + 1, cc_create_graph_step(acc, nodes[i], symbol), symbol)

\* create_graph: the name tables, the index of the symbol and, when the
\* symbol was seen, the DiGraph; ret is the value returned
cc_create_graph(callgraph, symbol) ==
    LET acc == cc_create_graph_loop(callgraph.nodes, 1,
                   [n2pkg |-> EmptyDict, symbol_idx |-> NoIdx, idx2n |-> EmptyDict,
                    n2idx |-> EmptyDict, nodes |-> <<>>], symbol)
    IN  [ n2pkg |-> acc.n2pkg, idx2n |-> acc.idx2n, n2idx |-> acc.n2idx,
          symbol_idx |-> acc.symbol_idx,
          graph |-> IF acc.symbol_idx = NoIdx THEN None
                    ELSE DiGraph(acc.nodes, callgraph.edges),
          ret |-> IF acc.symbol_idx = NoIdx THEN -1 ELSE 0 ]

\* G.reverse()
Reverse(G) == [nodes |-> G.nodes, edges |-> { <<e[2], e[1]>> : e \in G.edges }]

\* G.out_degree(node)
OutDegree(G, node) == Cardinality({ e \in G.edges : e[1] = node })

\* the paths of G from source to target: sequences of distinct nodes
SimplePaths(G, source, target) ==
    UNION { { p \in [1..k -> Range(G.nodes)] :
                /\ p[1] = source
                /\ p[k] = target
                /\ \A i, j \in 1..k : i # j => p[i] # p[j]
                /\ \A i \in 1..(k - 1) : <<p[i], p[i + 1]>> \in G.edges } :
            k \in 1..Len(G.nodes) }

ShortestPaths_any(G, source, target) == SimplePaths(G, source, target)

\* nx.shortest_path(G, source, target): the paths it may return, none when
\* it raises NetworkXNoPath.  Which of several shortest paths networkx
\* returns is left open.
ShortestPaths(G, source, target) ==
    LET P == SimplePaths(G, source, target)
    IN  { p \in P : \A q \in P : Len(p) <= Len(q) }

\* reversed(p)
Reversed(p) == [i \in 1..Len(p) |-> p[Len(p) + 1 - i]]

RECURSIVE cc_paths_loop(_, _, _)
\* the loop of find_callchains from the i-th node of G on: the lists `paths`
\* it may build
cc_paths_loop(G, symbol_idx, i) ==
    IF i > Len(G.nodes) THEN { <<>> }
    ELSE LET node == G.nodes[i]
             rest == cc_paths_loop(G, symbol_idx, i + 1)
             sps  == ShortestPaths(G, symbol_idx, node)
         IN  IF OutDegree(G, node) = 0 /\ sps # {}
             THEN { <<p>> \o r : p \in sps, r \in rest }
             ELSE rest

cc_num_leaves_all_nodes(G) == Len(G.nodes)

\* the value of num_leaves after the loop of find_callchains
cc_num_leaves(G) == Cardinality({ n \in Range(G.nodes) : OutDegree(G, n) = 0 })

cc_centrality_inverted(call_chains, num_leaves) == Ratio(num_leaves, Len(call_chains))

\* len(self.call_chains) / self.num_leaves
cc_centrality(call_chains, num_leaves) == Ratio(Len(call_chains), num_leaves)

RECURSIVE InsertByLen(_, _)
\* c put into the list s (sorted by length) behind every list that is not longer
InsertByLen(s, c) ==
    IF s = <<>> THEN <<c>>
    ELSE IF Len(Head(s)) <= Len(c) THEN <<Head(s)>> \o InsertByLen(Tail(s), c)
         ELSE <<c>> \o s

RECURSIVE SortedByLen(_)
\* sorted(chains, key=len): a stable sort
SortedByLen(chains) ==
    IF chains = <<>> THEN <<>>
    ELSE InsertByLen(SortedByLen(SubSeq(chains, 1, Len(chains) - 1)), chains[Len(chains)])

\* the names of a chain of ids
cc_named(idx2n, c) == [i \in 1..Len(c) |-> idx2n[c[i]]]

\* ChainCalculator.__init__
cc_new(symbol) ==
    [ pc |-> "init", symbol |-> symbol, symbol_idx |-> NoIdx, callgraph |-> None,
      graph |-> None, n2idx |-> EmptyDict, idx2n |-> EmptyDict, n2pkg |-> EmptyDict,
      call_chains |-> None, named_chains |-> None, num_leaves |-> 0,
      centrality |-> Zero, ret |-> 0, result |-> None, exception |-> None ]

cc_load_callgraph ==
    /\ cc.pc = "init"
    /\ cc' = [cc EXCEPT !.pc = "load_callgraph", !.callgraph = reached_cg_file]
    /\ UNCHANGED <<reached_cg_file, not_cc>>

cc_do_create_graph ==
    /\ cc.pc = "load_callgraph"
    /\ LET r == cc_create_graph(cc.callgraph, cc.symbol)
       IN  cc' = [cc EXCEPT !.pc = "create_graph", !.n2pkg = r.n2pkg, !.idx2n = r.idx2n,
                            !.n2idx = r.n2idx, !.symbol_idx = r.symbol_idx,
                            !.graph = r.graph, !.ret = r.ret]
    /\ UNCHANGED <<reached_cg_file, not_cc>>

\* process: `if ret < 0: return []`
cc_return_symbol_absent ==
    /\ cc.pc = "create_graph"
    /\ cc.ret < 0
    /\ cc' = [cc EXCEPT !.pc = "returned", !.result = <<>>]
    /\ UNCHANGED <<reached_cg_file, not_cc>>

\* find_callchains when there is a node without incoming edge
cc_do_find_callchains ==
    /\ cc.pc = "create_graph"
    /\ cc.ret >= 0
    /\ LET G == Reverse(cc.graph)
       IN  /\ cc_num_leaves(G) # 0
           /\ \E paths \in cc_paths_loop(G, cc.symbol_idx, 1) :
                LET rpaths == [i \in 1..Len(paths) |-> Reversed(paths[i])]
                IN  cc' = [cc EXCEPT !.pc = "find_callchains",
                                     !.num_leaves = cc_num_leaves(G),
                                     !.call_chains = rpaths,
                                     !.centrality = cc_centrality(rpaths, cc_num_leaves(G))]
    /\ UNCHANGED <<reached_cg_file, not_cc>>

\* find_callchains when every node has an incoming edge: the division by
\* num_leaves = 0 raises ZeroDivisionError, which process() lets through
cc_find_callchains_raises ==
    /\ cc.pc = "create_graph"
    /\ cc.ret >= 0
    /\ LET G == Reverse(cc.graph)
       IN  /\ cc_num_leaves(G) = 0
           /\ cc' = [cc EXCEPT !.pc = "raised", !.exception = "ZeroDivisionError",
                               !.num_leaves = 0, !.call_chains = <<>>]
    /\ UNCHANGED <<reached_cg_file, not_cc>>

\* the rest of process(): the chains by name, shortest first
cc_return_named_chains ==
    /\ cc.pc = "find_callchains"
    /\ LET named == SortedByLen([i \in 1..Len(cc.call_chains) |->
                                    cc_named(cc.idx2n, cc.call_chains[i])])
       IN  cc' = [cc EXCEPT !.pc = "returned", !.named_chains = named, !.result = named]
    /\ UNCHANGED <<reached_cg_file, not_cc>>

\* the symbol whose chains are asked for
TargetSymbol == "dep.vuln"

ChainInit ==
    /\ reached_cg_file \in CallGraphs
    /\ unified_cg_file = None
    /\ rd = Absent
    /\ cc = cc_new(TargetSymbol)
    /\ partial_cg_files = None /\ stitched_cg_file = None /\ socg_files = None
    /\ stats_file = None
    /\ st = Absent /\ un = Absent
    /\ bridges_file = None /\ augmented_cg_files = None /\ ag = Absent
    /\ NoBatch

ChainNext ==
    \/ cc_load_callgraph
    \/ cc_do_create_graph
    \/ cc_return_symbol_absent
    \/ cc_do_find_callchains
    \/ cc_find_callchains_raises
    \/ cc_return_named_chains

\* ChainCalculator.process() on any reached call graph
ChainSpec == ChainInit /\ [][ChainNext]_vars

(***************************************************************************)
(* VulnFinder (RQ3/cve_find_transitive_vuln.py): the chains of a symbol in *)
(* the reached graph of an application                                     *)
(***************************************************************************)
\* do_one: the application is added to transitively_vulnerable_packages
vf_listed(all_chains) == Len(all_chains) > 0

\* do_one, for a reached graph that exists: find_call_chains makes the
\* ChainCalculator of the symbol on the written graph
vf_find_call_chains ==
    /\ rd.pc = "done"
    /\ cc = Absent
    /\ cc' = cc_new(TargetSymbol)
    /\ UNCHANGED <<reached_cg_file, not_cc>>

ReachChainNext ==
    \/ ReachNext
    \/ vf_find_call_chains
    \/ ChainNext

\* ReachabilityDetector.reach() on any unified call graph and then the chains
\* of the symbol in the graph it wrote
ReachChainSpec == ReachInit /\ [][ReachChainNext]_vars

(***************************************************************************)
(* Strings that the code takes apart: sequences of tokens.  A token is a   *)
(* separator character ("/", ".", "(", ")") or an identifier.              *)
(***************************************************************************)
\* s.replace(a, b) for one-token a and b
Replace(s, a, b) == [i \in 1..Len(s) |-> IF s[i] = a THEN b ELSE s[i]]

RECURSIVE LStrip(_, _)
\* s.lstrip(c)
LStrip(s, c) == IF s # <<>> /\ Head(s) = c THEN LStrip(Tail(s), c) ELSE s

RECURSIVE RStrip(_, _)
\* s.rstrip(c)
RStrip(s, c) ==
    IF s # <<>> /\ s[Len(s)] = c THEN RStrip(SubSeq(s, 1, Len(s) - 1), c) ELSE s

\* s.removesuffix(suffix)
RemoveSuffix(s, suffix) ==
    IF Len(s) >= Len(suffix) /\ SubSeq(s, Len(s) - Len(suffix) + 1, Len(s)) = suffix
    THEN SubSeq(s, 1, Len(s) - Len(suffix))
    ELSE s

\* s.startswith(prefix)
StartsWith(s, prefix) ==
    Len(s) >= Len(prefix) /\ SubSeq(s, 1, Len(prefix)) = prefix

\* s.endswith(suffix)
EndsWith(s, suffix) ==
    Len(s) >= Len(suffix) /\ SubSeq(s, Len(s) - Len(suffix) + 1, Len(s)) = suffix

\* the positions of the separator in s
SepPositions(s, sep) == { i \in 1..Len(s) : s[i] = sep }

\* s.split(sep)[k] for k >= 1 counted from 0, when s has at least k separators
SplitPiece(s, sep, k) ==
    LET P == SepPositions(s, sep)
        from == CHOOSE i \in P : Cardinality({ j \in P : j < i }) = k - 1
        later == { i \in P : i > from }
        to == IF later = {} THEN Len(s) + 1 ELSE CHOOSE i \in later : \A j \in later : i <= j
    IN  SubSeq(s, from + 1, to - 1)

\* s.split(sep)[0]
SplitFirst(s, sep) ==
    LET P == SepPositions(s, sep)
    IN  IF P = {} THEN s
        ELSE SubSeq(s, 1, (CHOOSE i \in P : \A j \in P : i <= j) - 1)

\* s.split(sep)[-1]
SplitLast(s, sep) ==
    LET P == SepPositions(s, sep)
    IN  IF P = {} THEN s
        ELSE SubSeq(s, (CHOOSE i \in P : \A j \in P : j <= i) + 1, Len(s))

\* sep.join(s.split(sep)[1::])
AfterFirst(s, sep) ==
    LET P == SepPositions(s, sep)
    IN  IF P = {} THEN <<>>
        ELSE SubSeq(s, (CHOOSE i \in P : \A j \in P : i <= j) + 1, Len(s))

\* the suffix '()' that marks a callable namespace
CallMarker == << "(", ")" >>
\* the suffix '.__init__'
DotInit == << ".", "__init__" >>

(***************************************************************************)
(* Input documents: partial call graphs of packages, native call graphs.   *)
(***************************************************************************)
\* largest number of internal namespaces of an enumerated package document
MaxNamespaces == 2
\* largest number of internalCalls edges of an enumerated package document
MaxInternalCalls == 1
\* largest number of nodes of an enumerated native document
MaxLibNodes == 2
\* largest number of edges of an enumerated native document
MaxLibEdges == 1

\* name + ':' + version
PackageId(product, version) ==
    CASE product = "app" /\ version = "1.0" -> AppPackage
      [] product = "dep" /\ version = "1.0" -> DepPackage
      [] product = "tool" /\ version = "1.0" -> ToolPackage

\* Namespaces of package documents: a function and a class of module /a/, a
\* method of class b of module /a/, a function of module /a.b/, a constructor.
Namespaces ==
    { << "/", "a", "/", "f", "(", ")" >>,
      << "/", "a", "/", "f" >>,
      << "/", "a", "/", "b", ".", "c", "(", ")" >>,
      << "/", "a", ".", "b", "/", "c", "(", ")" >>,
      << "/", "a", "/", "f", ".", "__init__", "(", ")" >> }

\* native symbol names
NativeNames == { << "foo" >>, << "bar" >>, << "baz" >> }
LibA == "libA.so"
LibB == "libB.so"

\* bridge records {symbol, library} as the augmenter attaches them
Bridges == { [symbol |-> << "foo" >>, library |-> LibA],
             [symbol |-> << "foo" >>, library |-> LibB] }

\* the metadata of a namespace: a dict without or with the key 'bridges'
Metadata == { EmptyDict } \cup { [bridges |-> l] : l \in { <<>> } \cup { << b >> : b \in Bridges } }

\* a list, or None where a list may stand
NoneList == [none |-> TRUE]
SomeList(l) == [none |-> FALSE, list |-> l]

\* the sequences of k distinct elements of S
Arrangements(S, k) ==
    { q \in [1..k -> S] : \A i, j \in 1..k : i # j => q[i] # q[j] }

\* the sequences over S of at most k elements
SeqsUpTo(S, k) == UNION { [1..n -> S] : n \in 0..k }

\* Package documents of a product: n internal namespaces under the local ids
\* 0..n-1, none of them bridged, and calls among them.
PackageDocs(product, n) ==
    { [ product |-> product, version |-> "1.0",
        internal |-> [i \in 1..n |-> [idx |-> i - 1, namespace |-> ns[i],
                                      metadata |-> EmptyDict]],
        internalCalls |-> calls, external |-> <<>>, externalCalls |-> <<>> ] :
        ns \in Arrangements(Namespaces, n),
        calls \in SeqsUpTo((0..(n-1)) \X (0..(n-1)), MaxInternalCalls) }

\* the namespaces of the augmented documents, in the order of the document
NamespaceList ==
    << << "/", "a", "/", "f", "(", ")" >>,
       << "/", "a", "/", "b", ".", "c", "(", ")" >>,
       << "/", "a", "/", "f", ".", "__init__", "(", ")" >>,
       << "/", "a", ".", "b", "/", "c", "(", ")" >>,
       << "/", "a", "/", "f" >> >>

\* Augmented package documents of a product: the first n namespaces of the
\* list, each without the key 'bridges' or with a list of bridges, no calls.
BridgedDocs(product, n) ==
    { [ product |-> product, version |-> "1.0",
        internal |-> [i \in 1..n |-> [idx |-> i - 1, namespace |-> NamespaceList[i],
                                      metadata |-> md[i]]],
        internalCalls |-> <<>>, external |-> <<>>, externalCalls |-> <<>> ] :
        md \in [1..n -> Metadata] }

\* the document of the dependency
DepDoc ==
    [ product |-> "dep", version |-> "1.0",
      internal |-> << [idx |-> 0, namespace |-> << "/", "a", "/", "f", "(", ")" >>,
                       metadata |-> [bridges |->
                                       << [symbol |-> << "bar" >>, library |-> LibB] >>]] >>,
      internalCalls |-> << <<0, 0>> >>, external |-> <<>>, externalCalls |-> <<>> ]

\* Native documents of a library: n nodes under the local ids 0..n-1 with
\* distinct names, and a list of edges among them.
NativeDocs(library, n) ==
    { [ library |-> library,
        nodes |-> [i \in 1..n |-> [idx |-> i - 1, name |-> nm[i]]],
        edges |-> es ] :
        nm \in Arrangements(NativeNames, n),
        es \in SeqsUpTo((0..(n-1)) \X (0..(n-1)), MaxLibEdges) }

\* the native document of the second library: foo calls bar three times
LibBDoc ==
    [ library |-> LibB,
      nodes |-> << [idx |-> 0, name |-> << "foo" >>], [idx |-> 1, name |-> << "bar" >>] >>,
      edges |-> << <<0, 1>>, <<0, 1>>, <<0, 0>> >> ]

(***************************************************************************)
(* MyStitcher                                                              *)
(***************************************************************************)
\* add_internal: the node name of a namespace
st_newname(ns) ==
    RemoveSuffix(RStrip(LStrip(Replace(ns, "/", "."), "."), "."), CallMarker)

\* add_internal, one iteration of the loop over the namespaces of a document
st_add_namespace(acc, vn, package) ==
    LET newname == st_newname(vn.namespace)
        newidx  == acc.next_index
        newnode == [idx |-> newidx, URI |-> newname,
                    metadata |-> [package |-> package,
                                  bridges |-> IF "bridges" \in DOMAIN vn.metadata
                                              THEN SomeList(vn.metadata.bridges)
                                              ELSE NoneList]]
    IN  [acc EXCEPT !.next_index = newidx + 1,
                    !.final_nodes = Append(acc.final_nodes, newnode),
                    !.idx2n = Put(acc.idx2n, newidx, newname),
                    !.n2idx = Put(acc.n2idx, newname, newidx),
                    !.oldidx2newidx = Put(acc.oldidx2newidx, vn.idx, newidx)]

RECURSIVE st_add_namespaces(_, _, _, _)
st_add_namespaces(acc, internal, i, package) ==
    IF i > Len(internal) THEN acc
    ELSE st_add_namespaces(st_add_namespace(acc, internal[i], package),
                           internal, i + 1, package)

\* add_internal adding the edge of a call only
st_add_call_no_init(acc, call) ==
    [acc EXCEPT !.final_edges =
        Append(acc.final_edges, << acc.oldidx2newidx[call[1]], acc.oldidx2newidx[call[2]] >>)]

\* add_internal, one iteration of the loop over internalCalls
st_add_call(acc, call) ==
    LET newsrc == acc.oldidx2newidx[call[1]]
        newdst == acc.oldidx2newidx[call[2]]
        dst_name_init == acc.idx2n[newdst] \o DotInit
        edges == Append(acc.final_edges, <<newsrc, newdst>>)
    IN  [acc EXCEPT !.final_edges =
            IF dst_name_init \in DOMAIN acc.n2idx
            THEN Append(edges, <<newsrc, acc.n2idx[dst_name_init]>>)
            ELSE edges]

RECURSIVE st_add_calls(_, _, _)
st_add_calls(acc, calls, i) ==
    IF i > Len(calls) THEN acc
    ELSE st_add_calls(st_add_call(acc, calls[i]), calls, i + 1)

\* add_internal, the body of the loop over the documents
st_add_internal_cg(acc, cg) ==
    LET package == PackageId(cg.product, cg.version)
        a1 == st_add_namespaces([acc EXCEPT !.oldidx2newidx = EmptyDict],
                                cg.internal, 1, package)
        a2 == st_add_calls(a1, cg.internalCalls, 1)
    IN  [a2 EXCEPT !.old2new = Put(a2.old2new, package, a2.oldidx2newidx)]

RECURSIVE st_add_internal(_, _, _)
\* add_internal
st_add_internal(acc, cgs, i) ==
    IF i > Len(cgs) THEN acc
    ELSE st_add_internal(st_add_internal_cg(acc, cgs[i]), cgs, i + 1)

\* the modules of the standard library, stdlib_list(...)
STD_MODULES == { << "os" >> }

STD_MODULE_PREFIXES == { m \o << "." >> : m \in STD_MODULES }

\* the names of the methods of str, dir(str), in their order
STR_METHOD_SUFFIXES == << << "format" >>, << "join" >> >>

BUGGY_PREFIXES == { << "numpy", ".", "distutils" >> }

\* the value the stitcher keeps for a name that has no fully qualified name
FqnNone == << "NONE" >>

\* sub in s
Contains(s, sub) ==
    \E i \in 1..(Len(s) - Len(sub) + 1) : SubSeq(s, i, i + Len(sub) - 1) = sub

\* pyname_to_fqn over the packages installed at sysdir_path: d.r is
\* re-exported from the module d.impl, no other name can be imported
pyname_to_fqn(pyname) ==
    IF pyname = << "d", ".", "r" >> THEN << "d", ".", "impl", ".", "r" >> ELSE FqnNone

\* a blacklist of the builtins only
st_blacklisted_builtin_only(ns) == StartsWith(ns, << "//", ".builtin" >>)

\* resolve_externals: the namespace of a callee that is put on the blacklist
st_blacklisted(ns) ==
    LET extname == SplitLast(ns, "//")
    IN  \/ StartsWith(ns, << "//", ".builtin" >>)
        \/ \E m \in STD_MODULE_PREFIXES : StartsWith(extname, m)
        \/ \E pref \in BUGGY_PREFIXES : Contains(extname, pref)

\* resolve_externals: the names a callee is looked up under
st_possible_names(ns) ==
    LET extname == SplitLast(ns, "//")
        stripped == [i \in 1..Len(STR_METHOD_SUFFIXES) |->
                        RemoveSuffix(extname, STR_METHOD_SUFFIXES[i])]
    IN  << extname >> \o SelectSeq(stripped, LAMBDA x : x # extname)

\* resolve_externals: the options of one name of a callee; the fully
\* qualified name is the one n2fqn keeps, the result of pyname_to_fqn
st_options(dname) ==
    LET options == << dname, dname \o DotInit >>
        fqn == pyname_to_fqn(dname)
        o1 == IF fqn \in Range(options) THEN options ELSE Append(options, fqn)
        o2 == IF (fqn \o DotInit) \in Range(o1) THEN o1 ELSE Append(o1, fqn \o DotInit)
    IN  IF fqn # FqnNone THEN o2 ELSE options

RECURSIVE st_targets(_, _, _)
\* resolve_externals: the nodes an external call is resolved to, one for every
\* option of every name of the callee that is the name of a node
st_targets(n2idx, dstnames, i) ==
    IF i > Len(dstnames) THEN <<>>
    ELSE LET known == SelectSeq(st_options(dstnames[i]), LAMBDA name : name \in DOMAIN n2idx)
         IN  [k \in 1..Len(known) |-> n2idx[known[k]]] \o st_targets(n2idx, dstnames, i + 1)

\* a lookup that keeps the names that have a fully qualified name only
st_lookup_found_only(acc, dname) ==
    IF dname \in DOMAIN acc.n2fqn THEN acc
    ELSE IF pyname_to_fqn(dname) = FqnNone
    THEN [acc EXCEPT !.fqn_lookups = Append(acc.fqn_lookups, dname)]
    ELSE [acc EXCEPT !.n2fqn = Put(acc.n2fqn, dname, pyname_to_fqn(dname)),
                     !.fqn_lookups = Append(acc.fqn_lookups, dname)]

\* resolve_externals: the fully qualified name of one name of a callee, taken
\* from n2fqn or, for a name n2fqn does not have, from a call of pyname_to_fqn
\* whose result, 'NONE' for None, is kept in n2fqn; fqn_lookups is the list of
\* the arguments of the calls of pyname_to_fqn
st_lookup(acc, dname) ==
    IF dname \in DOMAIN acc.n2fqn THEN acc
    ELSE [acc EXCEPT !.n2fqn = Put(acc.n2fqn, dname, pyname_to_fqn(dname)),
                     !.fqn_lookups = Append(acc.fqn_lookups, dname)]

RECURSIVE st_lookup_names(_, _, _)
\* resolve_externals: the loop over the names of a callee
st_lookup_names(acc, dstnames, i) ==
    IF i > Len(dstnames) THEN acc
    ELSE st_lookup_names(st_lookup(acc, dstnames[i]), dstnames, i + 1)

\* resolve_externals, one iteration of the loop over externalCalls
st_resolve_call(acc, call, package, blacklist, oldidx2extname, count_externals) ==
    LET newsrc == acc.old2new[package][call[1]]
        dstnames == oldidx2extname[call[2]]
        targets == st_targets(acc.n2idx, dstnames, 1)
        looked == st_lookup_names(acc, dstnames, 1)
    IN  IF call[2] \in blacklist
        THEN [acc EXCEPT !.num_externals_ignored = acc.num_externals_ignored + 1]
        ELSE IF call[2] \notin DOMAIN oldidx2extname THEN acc
        ELSE IF targets # <<>>
        THEN [looked EXCEPT !.final_edges =
                             acc.final_edges \o [k \in 1..Len(targets) |-> << newsrc, targets[k] >>],
                         !.found_externals = acc.found_externals + 1,
                         !.num_externals_found = acc.num_externals_found + 1]
        ELSE [looked EXCEPT !.missed_externals = acc.missed_externals + 1,
                         !.num_externals_missed = acc.num_externals_missed + 1,
                         !.unresolved = acc.unresolved \cup { dstnames[1] },
                         !.external_stats =
                             Put(acc.external_stats, package,
                                 [total |-> count_externals,
                                  found |-> acc.found_externals,
                                  missed |-> acc.missed_externals + 1,
                                  which_missed |-> acc.unresolved \cup { dstnames[1] }]),
                         !.pynames_not_found = acc.pynames_not_found \cup { dstnames[1] }]

RECURSIVE st_resolve_calls(_, _, _, _, _, _)
st_resolve_calls(acc, calls, i, package, blacklist, oldidx2extname) ==
    IF i > Len(calls) THEN acc
    ELSE st_resolve_calls(st_resolve_call(acc, calls[i], package, blacklist,
                                          oldidx2extname, Len(calls)),
                          calls, i + 1, package, blacklist, oldidx2extname)

\* resolve_externals, the body of the loop over the documents; which_missed,
\* the sorted list of a set of names, is kept as that set
st_resolve_externals_cg(acc, cg) ==
    LET package == PackageId(cg.product, cg.version)
        blacklist == { cg.external[k].idx : k \in { j \in 1..Len(cg.external) :
                                                     st_blacklisted(cg.external[j].namespace) } }
        oldidx2extname == [ idx \in { cg.external[k].idx : k \in 1..Len(cg.external) } |->
                              st_possible_names(
                                 (CHOOSE vn \in Range(cg.external) : vn.idx = idx).namespace) ]
    IN  st_resolve_calls([acc EXCEPT !.found_externals = 0, !.missed_externals = 0,
                                     !.unresolved = {}],
                         cg.externalCalls, 1, package, blacklist, oldidx2extname)

RECURSIVE st_resolve_externals(_, _, _)
\* resolve_externals
st_resolve_externals(acc, cgs, i) ==
    IF i > Len(cgs) THEN acc
    ELSE st_resolve_externals(st_resolve_externals_cg(acc, cgs[i]), cgs, i + 1)

\* MyStitcher.__init__
st_new ==
    [ pc |-> "init", cgs |-> <<>>, final_nodes |-> <<>>, final_edges |-> <<>>,
      next_index |-> 0, n2idx |-> EmptyDict, idx2n |-> EmptyDict,
      old2new |-> EmptyDict, oldidx2newidx |-> EmptyDict,
      num_externals_found |-> 0, num_externals_missed |-> 0, num_externals_ignored |-> 0,
      found_externals |-> 0, missed_externals |-> 0, unresolved |-> {},
      external_stats |-> EmptyDict, pynames_not_found |-> {},
      n2fqn |-> EmptyDict, fqn_lookups |-> <<>> ]

\* load_callgraphs: cg_paths is a set of strings, read in its iteration order
st_load_callgraphs ==
    /\ st.pc = "init"
    /\ \E cgs \in Arrangements(partial_cg_files, Cardinality(partial_cg_files)) :
          st' = [st EXCEPT !.pc = "load_callgraphs", !.cgs = cgs]
    /\ UNCHANGED <<partial_cg_files, stitched_cg_file, stats_file, not_st>>

st_do_add_internal ==
    /\ st.pc = "load_callgraphs"
    /\ st' = [st_add_internal(st, st.cgs, 1) EXCEPT !.pc = "add_internal"]
    /\ UNCHANGED <<partial_cg_files, stitched_cg_file, stats_file, not_st>>

\* resolve_externals
st_do_resolve_externals ==
    /\ st.pc = "add_internal"
    /\ st' = [st_resolve_externals(st, st.cgs, 1) EXCEPT !.pc = "resolve_externals"]
    /\ UNCHANGED <<partial_cg_files, stitched_cg_file, stats_file, not_st>>

\* stitch: the writes of external_stats to stats_file and of final_cg to output_file
st_write_output ==
    /\ st.pc = "resolve_externals"
    /\ st' = [st EXCEPT !.pc = "done"]
    /\ stats_file' = st.external_stats
    /\ stitched_cg_file' = [nodes |-> st.final_nodes, edges |-> st.final_edges]
    /\ UNCHANGED <<partial_cg_files, not_st>>

(***************************************************************************)
(* Unifier                                                                 *)
(***************************************************************************)
\* An inner dict of egress_per_name_per_lib, library -> count, is the
\* sequence of its items in insertion order.
ItemKeys(items) == { items[i].key : i \in 1..Len(items) }

ItemGet(items, k) == (CHOOSE it \in Range(items) : it.key = k).value

\* d[k] = v: a new key goes to the end, an old key keeps its place
ItemPut(items, k, v) ==
    IF k \in ItemKeys(items)
    THEN [i \in 1..Len(items) |-> IF items[i].key = k THEN [key |-> k, value |-> v]
                                                       ELSE items[i]]
    ELSE Append(items, [key |-> k, value |-> v])

RECURSIVE InsertByValue(_, _)
InsertByValue(s, it) ==
    IF s = <<>> THEN <<it>>
    ELSE IF Head(s).value <= it.value THEN <<Head(s)>> \o InsertByValue(Tail(s), it)
         ELSE <<it>> \o s

RECURSIVE SortedByValue(_)
\* sorted(d.items(), key=lambda item: item[1]): a stable sort
SortedByValue(items) ==
    IF items = <<>> THEN <<>>
    ELSE InsertByValue(SortedByValue(SubSeq(items, 1, Len(items) - 1)), items[Len(items)])

\* egress_per_name_per_lib[name][library] = v (a defaultdict(dict))
un_set_egress(egress, name, library, v) ==
    Put(egress, name, ItemPut(Get(egress, name, <<>>), library, v))

\* load_socgs with a counter that is read but not bumped for a new native node
un_add_native_node_no_bump(acc, v, library) ==
    LET known == v.name \in DOMAIN acc.n2idx
        new_idx == acc.next_index
        a1 == IF known
              THEN [acc EXCEPT !.old2new = Put(acc.old2new, v.idx, acc.n2idx[v.name])]
              ELSE [acc EXCEPT !.final_nodes = Append(acc.final_nodes,
                                                      LibraryNode(new_idx, v.name, library)),
                               !.n2idx = Put(acc.n2idx, v.name, new_idx),
                               !.idx2n = Put(acc.idx2n, new_idx, v.name),
                               !.old2new = Put(acc.old2new, v.idx, new_idx)]
    IN  [a1 EXCEPT !.egress_per_name_per_lib =
                      un_set_egress(a1.egress_per_name_per_lib, v.name, library, 0)]

\* load_socgs, one iteration of the loop over the nodes of a native document
un_add_native_node(acc, v, library) ==
    LET known == v.name \in DOMAIN acc.n2idx
        new_idx == acc.next_index
        a1 == IF known
              THEN [acc EXCEPT !.old2new = Put(acc.old2new, v.idx, acc.n2idx[v.name])]
              ELSE [acc EXCEPT !.next_index = new_idx + 1,
                               !.final_nodes = Append(acc.final_nodes,
                                                      LibraryNode(new_idx, v.name, library)),
                               !.n2idx = Put(acc.n2idx, v.name, new_idx),
                               !.idx2n = Put(acc.idx2n, new_idx, v.name),
                               !.old2new = Put(acc.old2new, v.idx, new_idx)]
    IN  [a1 EXCEPT !.egress_per_name_per_lib =
                      un_set_egress(a1.egress_per_name_per_lib, v.name, library, 0)]

RECURSIVE un_add_native_nodes(_, _, _, _)
un_add_native_nodes(acc, nodes, i, library) ==
    IF i > Len(nodes) THEN acc
    ELSE un_add_native_nodes(un_add_native_node(acc, nodes[i], library), nodes, i + 1, library)

\* load_socgs, one iteration of the loop over the edges of a native document
un_add_native_edge(acc, e, library) ==
    LET newsrc == acc.old2new[e[1]]
        newdst == acc.old2new[e[2]]
        srcname == acc.idx2n[newsrc]
        counts == Get(acc.egress_per_name_per_lib, srcname, <<>>)
    IN  [acc EXCEPT !.final_edges = Append(acc.final_edges, <<newsrc, newdst>>),
                    !.egress_per_name_per_lib =
                        un_set_egress(acc.egress_per_name_per_lib, srcname, library,
                                      IF library \in ItemKeys(counts)
                                      THEN ItemGet(counts, library) + 1 ELSE 1)]

RECURSIVE un_add_native_edges(_, _, _, _)
un_add_native_edges(acc, edges, i, library) ==
    IF i > Len(edges) THEN acc
    ELSE un_add_native_edges(un_add_native_edge(acc, edges[i], library), edges, i + 1, library)

RECURSIVE un_load_socgs(_, _, _)
\* load_socgs
un_load_socgs(acc, socgs, i) ==
    IF i > Len(socgs) THEN acc
    ELSE LET f  == socgs[i]
             a1 == un_add_native_nodes([acc EXCEPT !.old2new = EmptyDict],
                                       f.nodes, 1, f.library)
             a2 == un_add_native_edges(a1, f.edges, 1, f.library)
         IN  un_load_socgs(a2, socgs, i + 1)

\* process_pycg adding the edge of a bridge without marking the egress count
un_add_bridge_no_sentinel(acc, new_idx, b) ==
    IF b.symbol \in DOMAIN acc.n2idx
    THEN [acc EXCEPT !.final_edges = Append(acc.final_edges, <<new_idx, acc.n2idx[b.symbol]>>)]
    ELSE acc

\* process_pycg, one iteration of the loop over the bridges of a node
un_add_bridge(acc, new_idx, b) ==
    IF b.symbol \in DOMAIN acc.n2idx
    THEN [acc EXCEPT !.final_edges = Append(acc.final_edges, <<new_idx, acc.n2idx[b.symbol]>>),
                     !.egress_per_name_per_lib =
                         un_set_egress(acc.egress_per_name_per_lib, b.symbol, b.library, -1)]
    ELSE acc

RECURSIVE un_add_bridges(_, _, _, _)
un_add_bridges(acc, new_idx, bridges, i) ==
    IF i > Len(bridges) THEN acc
    ELSE un_add_bridges(un_add_bridge(acc, new_idx, bridges[i]), new_idx, bridges, i + 1)

\* process_pycg, one iteration of the loop over the nodes of the stitched graph
un_add_pycg_node(acc, node) ==
    LET name == node.URI
        new_idx == acc.next_index
        a1 == [acc EXCEPT !.next_index = new_idx + 1,
                          !.final_nodes = Append(acc.final_nodes,
                                                 PackageNode(new_idx, name, node.metadata.package)),
                          !.n2idx = Put(acc.n2idx, name, new_idx),
                          !.idx2n = Put(acc.idx2n, new_idx, name),
                          !.old2new = Put(acc.old2new, node.idx, new_idx)]
    IN  IF node.metadata.bridges = NoneList THEN a1
        ELSE un_add_bridges(a1, new_idx, node.metadata.bridges.list, 1)

RECURSIVE un_add_pycg_nodes(_, _, _)
un_add_pycg_nodes(acc, nodes, i) ==
    IF i > Len(nodes) THEN acc
    ELSE un_add_pycg_nodes(un_add_pycg_node(acc, nodes[i]), nodes, i + 1)

\* process_pycg
un_process_pycg(acc) ==
    LET a1 == un_add_pycg_nodes([acc EXCEPT !.old2new = EmptyDict], acc.pycg_nodes, 1)
    IN  [a1 EXCEPT !.final_edges =
            a1.final_edges \o [i \in 1..Len(a1.pycg_edges) |->
                                 << a1.old2new[a1.pycg_edges[i][1]],
                                    a1.old2new[a1.pycg_edges[i][2]] >>]]

\* decide_final_libs taking the last item of the sorted counts
un_final_library_last(egress, name) ==
    SortedByValue(egress[name])[Len(egress[name])].key

\* decide_final_libs: the library of the first item of the sorted counts
un_final_library(egress, name) == SortedByValue(egress[name])[1].key

\* decide_final_libs
un_decide_final_libs(acc) ==
    [acc EXCEPT !.final_nodes =
        [i \in 1..Len(acc.final_nodes) |->
            LET node == acc.final_nodes[i]
            IN  IF node.library # None
                THEN [node EXCEPT !.library =
                         un_final_library(acc.egress_per_name_per_lib, node.name)]
                ELSE node]]

\* Unifier.__init__
un_new ==
    [ pc |-> "init", pycg_nodes |-> <<>>, pycg_edges |-> <<>>, next_index |-> 0,
      final_nodes |-> <<>>, final_edges |-> <<>>, n2idx |-> EmptyDict,
      idx2n |-> EmptyDict, old2new |-> EmptyDict, egress_per_name_per_lib |-> EmptyDict ]

\* load_pycg, once the stitcher has written its output
un_load_pycg ==
    /\ un.pc = "init"
    /\ st.pc = "done"
    /\ un' = [un EXCEPT !.pc = "load_pycg", !.pycg_nodes = stitched_cg_file.nodes,
                        !.pycg_edges = stitched_cg_file.edges]
    /\ UNCHANGED <<stitched_cg_file, unified_cg_file, not_un>>

un_do_load_socgs ==
    /\ un.pc = "load_pycg"
    /\ un' = [un_load_socgs(un, socg_files, 1) EXCEPT !.pc = "load_socgs"]
    /\ UNCHANGED <<stitched_cg_file, unified_cg_file, not_un>>

un_do_process_pycg ==
    /\ un.pc = "load_socgs"
    /\ un' = [un_process_pycg(un) EXCEPT !.pc = "process_pycg"]
    /\ UNCHANGED <<stitched_cg_file, unified_cg_file, not_un>>

\* decide_final_libs, and the write of the result by do_unify
un_do_decide_final_libs ==
    /\ un.pc = "process_pycg"
    /\ LET r == un_decide_final_libs(un)
       IN  /\ un' = [r EXCEPT !.pc = "done"]
           /\ unified_cg_file' = [nodes |-> r.final_nodes, edges |-> r.final_edges]
    /\ UNCHANGED <<stitched_cg_file, not_un>>

\* unify: the result of a run over a stitched graph and a list of native documents
un_unify(pycg, socgs) ==
    LET loaded == [un_new EXCEPT !.pycg_nodes = pycg.nodes, !.pycg_edges = pycg.edges]
        r == un_decide_final_libs(un_process_pycg(un_load_socgs(loaded, socgs, 1)))
    IN  [nodes |-> r.final_nodes, edges |-> r.final_edges]

(***************************************************************************)
(* The pipeline: stitch the package documents, unify with the native ones  *)
(***************************************************************************)
\* the example document of the application: f is bridged to foo of libA.so
AppDoc ==
    [ product |-> "app", version |-> "1.0",
      internal |-> << [idx |-> 0, namespace |-> << "/", "a", "/", "f", "(", ")" >>,
                       metadata |-> [bridges |->
                                       << [symbol |-> << "foo" >>, library |-> LibA] >>]],
                      [idx |-> 1, namespace |-> << "/", "a", "/", "b", ".", "c", "(", ")" >>,
                       metadata |-> EmptyDict] >>,
      internalCalls |-> << <<0, 1>> >>, external |-> <<>>, externalCalls |-> <<>> ]

\* the example native document of the first library: bar calls foo
LibADoc ==
    [ library |-> LibA,
      nodes |-> << [idx |-> 0, name |-> << "foo" >>], [idx |-> 1, name |-> << "bar" >>] >>,
      edges |-> << <<1, 0>> >> ]

\* largest number of externalCalls edges of an enumerated package document
MaxExternalCalls == 2

\* the namespaces of other packages that the application's document lists:
\* a function, a class, a re-exported function and an unknown name of the
\* dependency d, a builtin, a standard-library function, a name under an
\* unreliable prefix, a str method of a value, and the name of the package
\* that is not there, which the dependency calls too
ExternalNamespaces ==
    << [idx |-> 2, namespace |-> << "//", "d", "//", "d", ".", "h" >>],
       [idx |-> 3, namespace |-> << "//", "d", "//", "d", ".", "k" >>],
       [idx |-> 4, namespace |-> << "//", "d", "//", "d", ".", "r" >>],
       [idx |-> 5, namespace |-> << "//", "d", "//", "d", ".", "zz" >>],
       [idx |-> 6, namespace |-> << "//", ".builtin", "//", "print" >>],
       [idx |-> 7, namespace |-> << "//", "os", "//", "os", ".", "path", ".", "join" >>],
       [idx |-> 8, namespace |-> << "//", "numpy", "//", "numpy", ".", "distutils", ".", "x" >>],
       [idx |-> 9, namespace |-> << "//", "d", "//", "d", ".", "h", ".", "join" >>],
       [idx |-> 10, namespace |-> << "//", "q", "//", "q", ".", "x" >>] >>

\* Package documents of the application with calls into other packages
ExternalDocs ==
    { [ product |-> "app", version |-> "1.0",
        internal |-> << [idx |-> 0, namespace |-> << "/", "a", "/", "f", "(", ")" >>,
                         metadata |-> EmptyDict],
                        [idx |-> 1, namespace |-> << "/", "a", "/", "g", "(", ")" >>,
                         metadata |-> EmptyDict] >>,
        internalCalls |-> << <<0, 1>> >>,
        external |-> ExternalNamespaces,
        externalCalls |-> calls ] :
        calls \in SeqsUpTo({0} \X { ExternalNamespaces[k].idx : k \in 1..Len(ExternalNamespaces) },
                           MaxExternalCalls) }

\* the document of the dependency d: a function, the constructor of a class,
\* a function of the module d.impl, and a call to a package that is not there
DepExternalDoc ==
    [ product |-> "dep", version |-> "1.0",
      internal |-> << [idx |-> 0, namespace |-> << "/", "d", "/", "h", "(", ")" >>,
                       metadata |-> EmptyDict],
                      [idx |-> 1,
                       namespace |-> << "/", "d", "/", "k", ".", "__init__", "(", ")" >>,
                       metadata |-> EmptyDict],
                      [idx |-> 2, namespace |-> << "/", "d", ".", "impl", "/", "r", "(", ")" >>,
                       metadata |-> EmptyDict] >>,
      internalCalls |-> <<>>,
      external |-> << [idx |-> 3, namespace |-> << "//", "q", "//", "q", ".", "x" >>] >>,
      externalCalls |-> << <<0, 3>> >> ]

\* the example document of an application without bridges
PlainDoc ==
    [ product |-> "app", version |-> "1.0",
      internal |-> << [idx |-> 0, namespace |-> << "/", "a", "/", "f", "(", ")" >>,
                       metadata |-> EmptyDict] >>,
      internalCalls |-> <<>>, external |-> <<>>, externalCalls |-> <<>> ]

\* the document of an application whose top-level module carries the name of
\* a native symbol: the module foo, and its function f bridged to foo of libA.so
ShadowDoc ==
    [ product |-> "app", version |-> "1.0",
      internal |-> << [idx |-> 0, namespace |-> << "/", "foo", "/" >>,
                       metadata |-> EmptyDict],
                      [idx |-> 1, namespace |-> << "/", "foo", "/", "f", "(", ")" >>,
                       metadata |-> [bridges |->
                                       << [symbol |-> << "foo" >>, library |-> LibA] >>]] >>,
      internalCalls |-> <<>>, external |-> <<>>, externalCalls |-> <<>> ]

\* The inputs of a run: every enumerated application document, alone or with
\* the dependency, against the example native documents; every augmented
\* application document against the example native documents in both orders;
\* example package documents against every enumerated native document, alone
\* or before or after the second library; every application document with
\* external calls, alone or with the dependency it calls; or the application
\* with a module named like a native symbol.
PipelineInit ==
    /\ \/ \E n \in 1..MaxNamespaces : \E app \in PackageDocs("app", n) :
             /\ partial_cg_files \in { {app}, {app, DepDoc} }
             /\ socg_files = << LibADoc, LibBDoc >>
       \/ \E n \in 1..MaxNamespaces : \E app \in BridgedDocs("app", n) :
             /\ partial_cg_files \in { {app}, {app, DepDoc} }
             /\ socg_files \in { << LibADoc, LibBDoc >>, << LibBDoc, LibADoc >> }
       \/ \E n \in 1..MaxLibNodes : \E a \in NativeDocs(LibA, n) :
             /\ partial_cg_files \in { {AppDoc, DepDoc}, {PlainDoc} }
             /\ socg_files \in { << a >>, << a, LibBDoc >>, << LibBDoc, a >> }
       \/ \E app \in ExternalDocs :
             /\ partial_cg_files \in { {app}, {app, DepExternalDoc} }
             /\ socg_files = << LibADoc >>
       \/ /\ partial_cg_files = { ShadowDoc }
          /\ socg_files \in { << LibADoc >>, << LibBDoc, LibADoc >> }
    /\ stitched_cg_file = None
    /\ stats_file = None
    /\ unified_cg_file = None
    /\ reached_cg_file = None
    /\ st = st_new
    /\ un = un_new
    /\ rd = Absent
    /\ cc = Absent
    /\ bridges_file = None /\ augmented_cg_files = None /\ ag = Absent
    /\ NoBatch

PipelineNext ==
    \/ st_load_callgraphs
    \/ st_do_add_internal
    \/ st_do_resolve_externals
    \/ st_write_output
    \/ un_load_pycg
    \/ un_do_load_socgs
    \/ un_do_process_pycg
    \/ un_do_decide_final_libs

\* MyStitcher.stitch() and then Unifier.unify(), as UnifiedStitcher.process runs them
PipelineSpec == PipelineInit /\ [][PipelineNext]_vars

(***************************************************************************)
(* Augmentor                                                               *)
(* Its package documents keep the level of the modules, cg['modules']      *)
(* ['internal'][module]['namespaces'][index], because the code tests the   *)
(* module keys; the names of other packages start with the token "//".     *)
(***************************************************************************)
\* largest number of records in each list of an enumerated bridges document
MaxBridgeRecords == 2

\* pyname_to_tl_external
pyname_to_tl_external(pyname) == SplitPiece(pyname, "//", 1)

\* pyname_to_squash_external
pyname_to_squash_external(pyname) == SplitLast(pyname, "//")

\* tl2pkg: the package of a top-level import name
tl2pkg == (<< "a" >> :> AppPackage) @@ (<< "d" >> :> DepPackage)

\* pkg2tl: the top-level import names of a package
pkg2tl(pkg) == { tl \in DOMAIN tl2pkg : tl2pkg[tl] = pkg }

\* a file that does not exist
Missing == [missing |-> TRUE]

\* {'symbol': bridge['cfunc'], 'library': bridge['library']}
simple_bridge(bridge) == [symbol |-> bridge.cfunc, library |-> bridge.library]

\* the bridge records of the list 'internal': f twice, and g that no document has
InternalBridges ==
    { [pyname |-> << "/", "a", "/", "f" >>, cfunc |-> << "foo" >>, library |-> LibA],
      [pyname |-> << "/", "a", "/", "f" >>, cfunc |-> << "bar" >>, library |-> LibB],
      [pyname |-> << "/", "a", "/", "g" >>, cfunc |-> << "foo" >>, library |-> LibA] }

\* the bridge records of the list 'external': names of the dependency d, and
\* a name of z, which is no top-level import name of a known package
ExternalBridges ==
    { [pyname |-> << "//", "d", "//", "d", ".", "f" >>, cfunc |-> << "foo" >>, library |-> LibA],
      [pyname |-> << "//", "d", "//", "d", ".", "m", ".", "g" >>,
       cfunc |-> << "foo" >>, library |-> LibA],
      [pyname |-> << "//", "d", "//", "d", ".", "m", ".", "g" >>,
       cfunc |-> << "bar" >>, library |-> LibB],
      [pyname |-> << "//", "z", "//", "z", ".", "f" >>, cfunc |-> << "foo" >>, library |-> LibA] }

\* the bridges documents
BridgeFiles ==
    { [internal |-> i, external |-> e] :
        i \in SeqsUpTo(InternalBridges, MaxBridgeRecords),
        e \in SeqsUpTo(ExternalBridges, MaxBridgeRecords) }

\* the documents of the application: f without the call marker, or f with the
\* marker and a bridge
AppCgs ==
    { [ nodes |-> 2,
        internal |-> << [ name |-> << "/", "a", "/" >>,
                          namespaces |-> << [idx |-> 0, namespace |-> << "/", "a", "/" >>,
                                             metadata |-> EmptyDict],
                                            [idx |-> 1, namespace |-> << "/", "a", "/", "f" >>,
                                             metadata |-> EmptyDict] >> ] >> ],
      [ nodes |-> 2,
        internal |-> << [ name |-> << "/", "a", "/" >>,
                          namespaces |-> << [idx |-> 0, namespace |-> << "/", "a", "/" >>,
                                             metadata |-> EmptyDict],
                                            [idx |-> 1,
                                             namespace |-> << "/", "a", "/", "f", "(", ")" >>,
                                             metadata |-> [bridges |->
                                                << [symbol |-> << "foo" >>,
                                                    library |-> LibA] >>]] >> ] >> ] }

\* the documents of the dependency: absent, with the module /d/ and its
\* function f, or with the module /d.x/ only
DepCgs ==
    { Missing,
      [ nodes |-> 2,
        internal |-> << [ name |-> << "/", "d", "/" >>,
                          namespaces |-> << [idx |-> 0, namespace |-> << "/", "d", "/" >>,
                                             metadata |-> EmptyDict],
                                            [idx |-> 1,
                                             namespace |-> << "/", "d", "/", "f", "(", ")" >>,
                                             metadata |-> EmptyDict] >> ] >> ],
      [ nodes |-> 2,
        internal |-> << [ name |-> << "/", "d", ".", "x", "/" >>,
                          namespaces |-> << [idx |-> 0,
                                             namespace |-> << "/", "d", ".", "x", "/" >>,
                                             metadata |-> EmptyDict],
                                            [idx |-> 1,
                                             namespace |-> << "/", "d", ".", "x", "/", "h", "(", ")" >>,
                                             metadata |-> EmptyDict] >> ] >> ] }

\* a bridge appended to the list of a namespace whether or not it is in it
ag_attach_always(meta, sb) ==
    IF "bridges" \in DOMAIN meta
    THEN [meta EXCEPT !.bridges = Append(meta.bridges, sb)]
    ELSE Put(meta, "bridges", << sb >>)

\* the metadata of a namespace after a bridge is attached: appended to the
\* list unless it is in it, or a new list
ag_attach(meta, sb) ==
    IF "bridges" \in DOMAIN meta
    THEN IF sb \in Range(meta.bridges) THEN meta
         ELSE [meta EXCEPT !.bridges = Append(meta.bridges, sb)]
    ELSE Put(meta, "bridges", << sb >>)

\* the cached document of a package, read from its file on first use;
\* Missing when open() raises FileNotFoundError
ag_open(a, files, pkg) ==
    IF pkg \in DOMAIN a.cg_path2cg THEN a.cg_path2cg[pkg] ELSE files[pkg]

\* process_internal_bridge: the body of the loop for one namespace
ag_internal_namespace(n, pyname, sb) ==
    IF n.namespace = pyname \/ n.namespace = pyname \o CallMarker
    THEN [n EXCEPT !.namespace = IF EndsWith(n.namespace, CallMarker)
                                 THEN n.namespace ELSE n.namespace \o CallMarker,
                   !.metadata = ag_attach(n.metadata, sb)]
    ELSE n

\* process_internal_bridge: the namespaces the loop finds
ag_internal_found(cg, pyname) ==
    { << k, kk >> \in (1..Len(cg.internal)) \X (0..cg.nodes) :
        /\ kk \in 1..Len(cg.internal[k].namespaces)
        /\ \/ cg.internal[k].namespaces[kk].namespace = pyname
           \/ cg.internal[k].namespaces[kk].namespace = pyname \o CallMarker }

\* process_internal_bridge
ag_process_internal_bridge(a, files, bridge) ==
    LET pkg == a.given_package
        cg  == ag_open(a, files, pkg)
        new == [cg EXCEPT !.internal =
                  [k \in 1..Len(cg.internal) |->
                     [cg.internal[k] EXCEPT !.namespaces =
                        [kk \in 1..Len(cg.internal[k].namespaces) |->
                           ag_internal_namespace(cg.internal[k].namespaces[kk],
                                                 bridge.pyname, simple_bridge(bridge))]]]]
    IN  IF cg = Missing THEN a
        ELSE [a EXCEPT !.cg_path2cg = Put(a.cg_path2cg, pkg, new),
                       !.found_internals =
                           a.found_internals + Cardinality(ag_internal_found(cg, bridge.pyname))]

\* process_external_bridge: the name a namespace is compared under
ag_clean(ns, tls, tl) ==
    LET clean == LStrip(Replace(ns, "/", "."), ".")
    IN  IF \E t \in tls : StartsWith(clean, t \o << "." >>) THEN clean
        ELSE tl \o << "." >> \o clean

\* process_external_bridge: the namespace matches the name of the bridge
ag_external_match(n, squashed, tls, tl) ==
    \/ ag_clean(n.namespace, tls, tl) = squashed
    \/ ag_clean(n.namespace, tls, tl) = squashed \o CallMarker

\* process_external_bridge: the inner loop over the namespaces of one module,
\* which stops at the first match
ag_external_module(m, squashed, tls, tl, sb) ==
    LET matches == { kk \in 1..Len(m.namespaces) :
                       ag_external_match(m.namespaces[kk], squashed, tls, tl) }
        first == CHOOSE kk \in matches : \A j \in matches : kk <= j
    IN  IF matches = {} THEN m
        ELSE [m EXCEPT !.namespaces[first].metadata =
                           ag_attach(m.namespaces[first].metadata, sb)]

\* the bootstrap namespace and the new namespace under one index
ag_create_internal_same_index(cg, squashed, tl, sb) ==
    LET modname == << "/" >> \o tl \o << "/" >>
        new_ns  == modname \o AfterFirst(squashed, ".") \o CallMarker
        known   == \E k \in 1..Len(cg.internal) : cg.internal[k].name = modname
        new_internal == [idx |-> cg.nodes, namespace |-> new_ns,
                         metadata |-> [bridges |-> << sb >>]]
        internals == IF known THEN cg.internal
                     ELSE Append(cg.internal,
                                 [name |-> modname,
                                  namespaces |-> << [idx |-> cg.nodes, namespace |-> modname,
                                                     metadata |-> EmptyDict] >>])
    IN  [cg EXCEPT !.nodes = cg.nodes + 1,
                   !.internal = [k \in 1..Len(internals) |->
                                   IF internals[k].name = modname
                                   THEN [internals[k] EXCEPT !.namespaces =
                                            Append(internals[k].namespaces, new_internal)]
                                   ELSE internals[k]]]

\* process_external_bridge: the namespace made for a name that matched none,
\* in a new module with its bootstrap namespace or in the module it has
ag_create_internal(cg, squashed, tl, sb) ==
    LET modname == << "/" >> \o tl \o << "/" >>
        new_ns  == modname \o AfterFirst(squashed, ".") \o CallMarker
        known   == \E k \in 1..Len(cg.internal) : cg.internal[k].name = modname
        num_nodes == IF known THEN cg.nodes ELSE cg.nodes + 1
        new_internal == [idx |-> num_nodes, namespace |-> new_ns,
                         metadata |-> [bridges |-> << sb >>]]
        internals == IF known THEN cg.internal
                     ELSE Append(cg.internal,
                                 [name |-> modname,
                                  namespaces |-> << [idx |-> cg.nodes, namespace |-> modname,
                                                     metadata |-> EmptyDict] >>])
    IN  [cg EXCEPT !.nodes = num_nodes + 1,
                   !.internal = [k \in 1..Len(internals) |->
                                   IF internals[k].name = modname
                                   THEN [internals[k] EXCEPT !.namespaces =
                                            Append(internals[k].namespaces, new_internal)]
                                   ELSE internals[k]]]

\* a name of no known package handled as a name of the given package
ag_process_external_bridge_given(a, files, bridge) ==
    LET tl == pyname_to_tl_external(bridge.pyname)
        pkg == IF tl \in DOMAIN tl2pkg THEN tl2pkg[tl] ELSE a.given_package
        cg == ag_open(a, files, pkg)
        tls == pkg2tl(pkg)
        squashed == pyname_to_squash_external(bridge.pyname)
        sb == simple_bridge(bridge)
        found == \E k \in 1..Len(cg.internal) : \E kk \in 1..Len(cg.internal[k].namespaces) :
                     ag_external_match(cg.internal[k].namespaces[kk], squashed, tls, tl)
        attached == [cg EXCEPT !.internal =
                        [k \in 1..Len(cg.internal) |->
                            ag_external_module(cg.internal[k], squashed, tls, tl, sb)]]
    IN  IF cg = Missing THEN a
        ELSE IF found
             THEN [a EXCEPT !.cg_path2cg = Put(a.cg_path2cg, pkg, attached),
                            !.found_internals = a.found_internals + 1]
             ELSE [a EXCEPT !.cg_path2cg =
                                Put(a.cg_path2cg, pkg, ag_create_internal(cg, squashed, tl, sb)),
                            !.created_internals = a.created_internals + 1]

\* process_external_bridge
ag_process_external_bridge(a, files, bridge) ==
    LET tl == pyname_to_tl_external(bridge.pyname)
        pkg == tl2pkg[tl]
        cg == ag_open(a, files, pkg)
        tls == pkg2tl(pkg)
        squashed == pyname_to_squash_external(bridge.pyname)
        sb == simple_bridge(bridge)
        found == \E k \in 1..Len(cg.internal) : \E kk \in 1..Len(cg.internal[k].namespaces) :
                     ag_external_match(cg.internal[k].namespaces[kk], squashed, tls, tl)
        attached == [cg EXCEPT !.internal =
                        [k \in 1..Len(cg.internal) |->
                            ag_external_module(cg.internal[k], squashed, tls, tl, sb)]]
    IN  IF tl \notin DOMAIN tl2pkg THEN a
        ELSE IF cg = Missing THEN a
        ELSE IF found
             THEN [a EXCEPT !.cg_path2cg = Put(a.cg_path2cg, pkg, attached),
                            !.found_internals = a.found_internals +
                                Cardinality({ k \in 1..Len(cg.internal) :
                                    \E kk \in 1..Len(cg.internal[k].namespaces) :
                                        ag_external_match(cg.internal[k].namespaces[kk],
                                                          squashed, tls, tl) })]
             ELSE [a EXCEPT !.cg_path2cg =
                                Put(a.cg_path2cg, pkg, ag_create_internal(cg, squashed, tl, sb)),
                            !.created_internals = a.created_internals + 1]

\* Augmentor.__init__; found_internals and created_internals are the lengths
\* of the two lists of descriptions
ag_new(given_package) ==
    [ pc |-> "init", given_package |-> given_package, bridges |-> None,
      cg_path2cg |-> EmptyDict, found_internals |-> 0, created_internals |-> 0,
      i |-> 1, j |-> 1 ]

\* augment: the bridges document is read
ag_load_bridges ==
    /\ ag.pc = "init"
    /\ ag' = [ag EXCEPT !.pc = "augment", !.bridges = bridges_file]
    /\ UNCHANGED <<bridges_file, augmented_cg_files, not_ag>>

\* augment: one iteration of the loop over bridges['internal']
ag_do_process_internal_bridge ==
    /\ ag.pc = "augment"
    /\ ag.i <= Len(ag.bridges.internal)
    /\ ag' = [ag_process_internal_bridge(ag, augmented_cg_files, ag.bridges.internal[ag.i])
                 EXCEPT !.i = ag.i + 1]
    /\ UNCHANGED <<bridges_file, augmented_cg_files, not_ag>>

\* augment: one iteration of the loop over bridges['external']
ag_do_process_external_bridge ==
    /\ ag.pc = "augment"
    /\ ag.i > Len(ag.bridges.internal)
    /\ ag.j <= Len(ag.bridges.external)
    /\ ag' = [ag_process_external_bridge(ag, augmented_cg_files, ag.bridges.external[ag.j])
                 EXCEPT !.j = ag.j + 1]
    /\ UNCHANGED <<bridges_file, augmented_cg_files, not_ag>>

\* the documents as a write of the cache leaves them
ag_written(a, files) ==
    [p \in DOMAIN files |-> IF p \in DOMAIN a.cg_path2cg THEN a.cg_path2cg[p] ELSE files[p]]

\* augment: every cached document is written back to its path
ag_write ==
    /\ ag.pc = "augment"
    /\ ag.i > Len(ag.bridges.internal)
    /\ ag.j > Len(ag.bridges.external)
    /\ augmented_cg_files' = ag_written(ag, augmented_cg_files)
    /\ ag' = [ag EXCEPT !.pc = "done"]
    /\ UNCHANGED <<bridges_file, not_ag>>

\* the documents after the bridge records of a list are applied in order
RECURSIVE ApplyInternal(_, _, _)
ApplyInternal(a, files, bs) ==
    IF bs = <<>> THEN a
    ELSE ApplyInternal(ag_process_internal_bridge(a, files, Head(bs)), files, Tail(bs))

RECURSIVE ApplyExternal(_, _, _)
ApplyExternal(a, files, bs) ==
    IF bs = <<>> THEN a
    ELSE ApplyExternal(ag_process_external_bridge(a, files, Head(bs)), files, Tail(bs))

\* augment: the documents after a run over a bridges document
ag_augment(files, bridges, given_package) ==
    ag_written(ApplyExternal(ApplyInternal(ag_new(given_package), files, bridges.internal),
                             files, bridges.external), files)

AugmentInit ==
    /\ bridges_file \in BridgeFiles
    /\ \E app \in AppCgs, dep \in DepCgs :
          augmented_cg_files = (AppPackage :> app) @@ (DepPackage :> dep)
    /\ ag = ag_new(AppPackage)
    /\ partial_cg_files = None /\ stitched_cg_file = None /\ socg_files = None
    /\ stats_file = None
    /\ unified_cg_file = None /\ reached_cg_file = None
    /\ st = Absent /\ un = Absent /\ rd = Absent /\ cc = Absent
    /\ NoBatch

AugmentNext ==
    \/ ag_load_bridges
    \/ ag_do_process_internal_bridge
    \/ ag_do_process_external_bridge
    \/ ag_write

\* Augmentor.augment() on the documents of an application and its dependency
AugmentSpec == AugmentInit /\ [][AugmentNext]_vars

(***************************************************************************)
(* UnifiedStitcher (scripts/pypi_unistitch.py)                             *)
(***************************************************************************)
\* the applications main submits to its pool, one task each
Applications == { AppPackage, ToolPackage }

\* the documents deps.json: both applications declare the dependency d
Dependencies == [p \in Applications |-> << DepPackage >>]

\* the shared libraries pip installs with the dependency, by their paths
\* relative to the install directory
LibAPath == << "d", "/", "libA.so" >>
LibBPath == << "d", "/", "libB.so" >>

\* largest number of shared libraries in an install directory
MaxLibs == 2

InstalledLibs == { LibAPath, LibBPath }

\* the first path components of an install directory and their packages
FirstComp2Pkg(p) ==
    (<< "d" >> :> DepPackage)
        @@ (IF p = AppPackage THEN << "app" >> :> p ELSE << "tool" >> :> p)

\* the partial call graph of an application: a function that calls h of d
UsAppDoc(product) ==
    [ product |-> product, version |-> "1.0",
      internal |-> << [idx |-> 0, namespace |-> << "/", product, "/", "f", "(", ")" >>,
                       metadata |-> EmptyDict] >>,
      internalCalls |-> <<>>,
      external |-> << [idx |-> 1, namespace |-> << "//", "d", "//", "d", ".", "h" >>] >>,
      externalCalls |-> << <<0, 1>> >> ]

\* the partial call graph of the dependency d
UsDepDoc ==
    [ product |-> "dep", version |-> "1.0",
      internal |-> << [idx |-> 0, namespace |-> << "/", "d", "/", "h", "(", ")" >>,
                       metadata |-> EmptyDict] >>,
      internalCalls |-> <<>>, external |-> <<>>, externalCalls |-> <<>> ]

\* the document ghidra_pyhidra_callgraphs.py writes for a library: an
\* exported symbol that calls a function Ghidra names by its address
GhidraDoc(lib) ==
    [ library |-> IF lib = LibAPath THEN "d/libA.so" ELSE "d/libB.so",
      nodes |-> << [idx |-> 0, name |-> IF lib = LibAPath THEN << "foo" >> ELSE << "bar" >>],
                   [idx |-> 1, name |-> << "FUN_", "00101139" >>] >>,
      edges |-> << <<0, 1>> >> ]

\* a bridges document that lists no bridge
NoBridges == [internal |-> <<>>, external |-> <<>>]

\* the path of the native call graph of a library of a package
bcg_path(pkg_and_ver, lib) == << pkg_and_ver, lib >>

\* bincg_add_fun_suffix: the document it writes back for the document it read
bincg_add_fun_suffix(lib, cg) ==
    LET suffix == Replace(lib, "/", "_")
    IN  [cg EXCEPT !.nodes =
            [k \in 1..Len(cg.nodes) |->
                IF StartsWith(cg.nodes[k].name, << "FUN_" >>)
                THEN [cg.nodes[k] EXCEPT !.name = cg.nodes[k].name \o << "_" >> \o suffix]
                ELSE cg.nodes[k]]]

\* stitch.py on a list of documents: the stitched graph and the statistics
st_stitch(cgs) ==
    LET s == st_resolve_externals(st_add_internal([st_new EXCEPT !.cgs = cgs], cgs, 1), cgs, 1)
    IN  [ augstitched |-> [nodes |-> s.final_nodes, edges |-> s.final_edges],
          stats |-> s.external_stats ]

\* UnifiedStitcher.__init__
us_new(package) ==
    [ pc |-> "init", package |-> package, deps |-> <<>>, first_comp2pkg |-> EmptyDict,
      all_libs |-> None, pkg2pcg |-> EmptyDict, pkg2aug |-> EmptyDict,
      lib2pkg |-> EmptyDict, lib2bcg |-> EmptyDict, i |-> 1, ret |-> None ]

\* [self.package] + self.deps
us_all_packages(u) == << u.package >> \o u.deps

\* lib2bcg.values(): the paths in the order of their insertion
us_bcg_paths(u) ==
    LET libs == SelectSeq(u.all_libs, LAMBDA lib : lib \in DOMAIN u.lib2bcg)
    IN  [k \in 1..Len(libs) |-> u.lib2bcg[libs[k]]]

\* what a step of the task p leaves alone
not_us == <<partial_cg_files, stitched_cg_file, socg_files, unified_cg_file,
            reached_cg_file, st, un, rd, cc, bridges_file, augmented_cg_files, ag,
            stats_file, reached_cg_root, fr>>

\* process: the unified graph exists and is kept, or the dependencies are loaded
us_load_dependencies(p) ==
    /\ us[p].pc = "init"
    /\ us' = [us EXCEPT ![p] =
                 IF unified_cg_root[p] # Missing
                 THEN [@ EXCEPT !.pc = "returned"]
                 ELSE [@ EXCEPT !.pc = "load_dependencies", !.deps = Dependencies[p]]]
    /\ UNCHANGED <<partial_cg_root, bridges_root, bcg_root, augmented_cg_root,
                   augstitched_cg_root, unified_cg_root, not_us>>

\* find_toplevels, save_toplevels, install_packages and find_all_libs on a
\* first run in which pip installs every package: the libraries are listed in
\* the order of Path.glob
us_find_all_libs(p) ==
    /\ us[p].pc = "load_dependencies"
    /\ \E n \in 1..MaxLibs : \E libs \in Arrangements(InstalledLibs, n) :
          us' = [us EXCEPT ![p] = [@ EXCEPT !.pc = "find_all_libs",
                                            !.first_comp2pkg = FirstComp2Pkg(p),
                                            !.all_libs = libs]]
    /\ UNCHANGED <<partial_cg_root, bridges_root, bcg_root, augmented_cg_root,
                   augstitched_cg_root, unified_cg_root, not_us>>

\* find_partial_cgs, and the return of process when it does not return 0
us_find_partial_cgs(p) ==
    /\ us[p].pc = "find_all_libs"
    /\ LET all_packages == us_all_packages(us[p])
       IN  us' = [us EXCEPT ![p] =
                     IF \E k \in 1..Len(all_packages) : partial_cg_root[all_packages[k]] = Missing
                     THEN [@ EXCEPT !.pc = "returned", !.ret = -1,
                              !.pkg2pcg =
                                 LET first == CHOOSE k \in 1..Len(all_packages) :
                                                 /\ partial_cg_root[all_packages[k]] = Missing
                                                 /\ \A j \in 1..(k - 1) :
                                                       partial_cg_root[all_packages[j]] # Missing
                                 IN  [j \in { all_packages[x] : x \in 1..(first - 1) } |-> j]]
                     ELSE [@ EXCEPT !.pc = "find_partial_cgs",
                              !.pkg2pcg = [j \in Range(all_packages) |-> j]]]
    /\ UNCHANGED <<partial_cg_root, bridges_root, bcg_root, augmented_cg_root,
                   augstitched_cg_root, unified_cg_root, not_us>>

\* find_bridges: a bridges document that does not exist is created; the
\* analysis finds no bridge in the packages of the model
us_find_bridges(p) ==
    /\ us[p].pc = "find_partial_cgs"
    /\ bridges_root' = [k \in DOMAIN bridges_root |->
                          IF k \in Range(us_all_packages(us[p])) /\ bridges_root[k] = Missing
                          THEN NoBridges ELSE bridges_root[k]]
    /\ us' = [us EXCEPT ![p] = [@ EXCEPT !.pc = "find_bridges"]]
    /\ UNCHANGED <<partial_cg_root, bcg_root, augmented_cg_root,
                   augstitched_cg_root, unified_cg_root, not_us>>

RECURSIVE us_augment_all(_, _, _)
\* augment_partial_cgs: Augmentor.augment for the package and every dependency
us_augment_all(files, packages, k) ==
    IF k > Len(packages) THEN files
    ELSE us_augment_all(ag_augment(files, bridges_root[packages[k]], packages[k]),
                        packages, k + 1)

\* augment_partial_cgs: the documents are copied and the copies are augmented
us_augment_partial_cgs(p) ==
    /\ us[p].pc = "find_bridges"
    /\ LET copies == [k \in DOMAIN us[p].pkg2pcg |-> partial_cg_root[us[p].pkg2pcg[k]]]
       IN  augmented_cg_root' =
              [augmented_cg_root EXCEPT ![p] = us_augment_all(copies, us_all_packages(us[p]), 1)]
    /\ us' = [us EXCEPT ![p] = [@ EXCEPT !.pc = "augment_partial_cgs",
                                         !.pkg2aug = [k \in Range(us_all_packages(us[p])) |-> k]]]
    /\ UNCHANGED <<partial_cg_root, bridges_root, bcg_root,
                   augstitched_cg_root, unified_cg_root, not_us>>

\* stitch_augmented_cgs: stitch.py on the documents of the directory, in the
\* order of os.listdir
us_stitch_augmented_cgs(p) ==
    /\ us[p].pc = "augment_partial_cgs"
    /\ \E cgs \in Arrangements(Range(augmented_cg_root[p]),
                               Cardinality(Range(augmented_cg_root[p]))) :
          augstitched_cg_root' = [augstitched_cg_root EXCEPT ![p] = st_stitch(cgs)]
    /\ us' = [us EXCEPT ![p] = [@ EXCEPT !.pc = "stitch_augmented_cgs"]]
    /\ UNCHANGED <<partial_cg_root, bridges_root, bcg_root, augmented_cg_root,
                   unified_cg_root, not_us>>

\* prepare_unify, its first loop: the path of the native call graph of every
\* library whose first path component belongs to a package
us_prepare_unify(p) ==
    /\ us[p].pc = "stitch_augmented_cgs"
    /\ LET u == us[p]
           known == { lib \in Range(u.all_libs) : SplitFirst(lib, "/") \in DOMAIN u.first_comp2pkg }
       IN  us' = [us EXCEPT ![p] =
                     [@ EXCEPT !.pc = "prepare_unify", !.i = 1,
                               !.lib2pkg = [lib \in known |-> u.first_comp2pkg[SplitFirst(lib, "/")]],
                               !.lib2bcg = [lib \in known |->
                                              bcg_path(u.first_comp2pkg[SplitFirst(lib, "/")], lib)]]]
    /\ UNCHANGED <<partial_cg_root, bridges_root, bcg_root, augmented_cg_root,
                   augstitched_cg_root, unified_cg_root, not_us>>

\* prepare_unify, one iteration of its second loop: do_bincg_single rewrites
\* the document that exists, or runs Ghidra, which writes the document or fails
us_do_bincg_single(p) ==
    /\ us[p].pc = "prepare_unify"
    /\ us[p].i <= Len(us[p].all_libs)
    /\ LET lib == us[p].all_libs[us[p].i]
       IN  IF lib \notin DOMAIN us[p].lib2bcg THEN UNCHANGED bcg_root
           ELSE LET output_path == us[p].lib2bcg[lib]
                IN  IF bcg_root[output_path] # Missing
                    THEN bcg_root' = [bcg_root EXCEPT ![output_path] =
                                         bincg_add_fun_suffix(lib, bcg_root[output_path])]
                    ELSE \/ bcg_root' = [bcg_root EXCEPT ![output_path] =
                                            bincg_add_fun_suffix(lib, GhidraDoc(lib))]
                         \/ UNCHANGED bcg_root
    /\ us' = [us EXCEPT ![p] = [@ EXCEPT !.i = @ + 1]]
    /\ UNCHANGED <<partial_cg_root, bridges_root, augmented_cg_root,
                   augstitched_cg_root, unified_cg_root, not_us>>

\* do_unify: the unifier reads every path of lib2bcg; a path without a
\* document raises, and do_unify returns -1 without writing
us_do_unify(p) ==
    /\ us[p].pc = "prepare_unify"
    /\ us[p].i > Len(us[p].all_libs)
    /\ LET bcg_paths == us_bcg_paths(us[p])
       IN  IF \E k \in 1..Len(bcg_paths) : bcg_root[bcg_paths[k]] = Missing
           THEN /\ us' = [us EXCEPT ![p] = [@ EXCEPT !.pc = "returned", !.ret = -1]]
                /\ UNCHANGED unified_cg_root
           ELSE /\ us' = [us EXCEPT ![p] = [@ EXCEPT !.pc = "returned", !.ret = 0]]
                /\ unified_cg_root' =
                      [unified_cg_root EXCEPT ![p] =
                          un_unify(augstitched_cg_root[p].augstitched,
                                   [k \in 1..Len(bcg_paths) |-> bcg_root[bcg_paths[k]]])]
    /\ UNCHANGED <<partial_cg_root, bridges_root, bcg_root, augmented_cg_root,
                   augstitched_cg_root, not_us>>

\* The applications and the dependency d: the partial call graph, the bridges
\* document and the native call graphs of d are there from an earlier run or
\* are not there.
UnistitchInit ==
    /\ us = [p \in Applications |-> us_new(p)]
    /\ \E dep \in { Missing, UsDepDoc } :
          partial_cg_root = (AppPackage :> UsAppDoc("app")) @@ (ToolPackage :> UsAppDoc("tool"))
                               @@ (DepPackage :> dep)
    /\ \E b \in { Missing, NoBridges } :
          bridges_root = (AppPackage :> Missing) @@ (ToolPackage :> Missing) @@ (DepPackage :> b)
    /\ \E a \in { Missing, bincg_add_fun_suffix(LibAPath, GhidraDoc(LibAPath)) },
          b \in { Missing, bincg_add_fun_suffix(LibBPath, GhidraDoc(LibBPath)) } :
          bcg_root = (bcg_path(DepPackage, LibAPath) :> a) @@ (bcg_path(DepPackage, LibBPath) :> b)
    /\ augmented_cg_root = [p \in Applications |-> Missing]
    /\ augstitched_cg_root = [p \in Applications |-> Missing]
    /\ unified_cg_root = [p \in Applications |-> Missing]
    /\ reached_cg_root = None /\ fr = Absent
    /\ partial_cg_files = None /\ stitched_cg_file = None /\ socg_files = None
    /\ stats_file = None /\ unified_cg_file = None /\ reached_cg_file = None
    /\ st = Absent /\ un = Absent /\ rd = Absent /\ cc = Absent
    /\ bridges_file = None /\ augmented_cg_files = None /\ ag = Absent

UnistitchNext ==
    \E p \in Applications :
        \/ us_load_dependencies(p)
        \/ us_find_all_libs(p)
        \/ us_find_partial_cgs(p)
        \/ us_find_bridges(p)
        \/ us_augment_partial_cgs(p)
        \/ us_stitch_augmented_cgs(p)
        \/ us_prepare_unify(p)
        \/ us_do_bincg_single(p)
        \/ us_do_unify(p)

\* main: the tasks do_single(p) of the pool, each running process(), interleaved
UnistitchSpec == UnistitchInit /\ [][UnistitchNext]_vars

(***************************************************************************)
(* FullReachability_P and FullReachability_G (scripts/reachability.py)     *)
(***************************************************************************)
\* largest number of packages with a unified call graph under unified_cg_root
MaxCorpus == 3

\* the packages of the corpus
CorpusPackages == { AppPackage, DepPackage, ToolPackage }

\* a file whose text is not JSON
MalformedJson == [malformed |-> TRUE]

\* a unified call graph with a node that has neither 'library' nor 'package'
NoOwnerGraph ==
    [ nodes |-> << PackageNode(0, "app.main", AppPackage),
                   [idx |-> 1, name |-> "app.helper", library |-> None] >>,
      edges |-> { <<0, 1>> } ]

\* the documents unified.json of the corpus
CorpusDocs == { ExampleGraph, ExampleGraphNative, MalformedJson, NoOwnerGraph }

\* load_callgraph and create_graph raise on the document: json.loads fails,
\* or a node without library has no package
rd_raises(callgraph) ==
    IF callgraph = MalformedJson THEN TRUE
    ELSE \E k \in 1..Len(callgraph.nodes) :
            /\ callgraph.nodes[k].library = None
            /\ "package" \notin DOMAIN callgraph.nodes[k]

\* reach: the document written to self.output
rd_reach(callgraph, package) ==
    LET g == rd_create_graph(callgraph)
        entrypoints == find_entrypoints(g.n2pkg, g.n2idx, package)
    IN  generate_final_callgraph(callgraph, calculate_reachable(g.graph, entrypoints))

\* FullReachability_P.__init__ / FullReachability_G.__init__; github tells
\* the two classes apart
fr_new(github, always) ==
    [ pc |-> "init", github |-> github, always |-> always, cg_paths |-> <<>>, i |-> 1 ]

not_fr == <<partial_cg_files, stitched_cg_file, socg_files, unified_cg_file,
            reached_cg_file, st, un, rd, cc, bridges_file, augmented_cg_files, ag,
            stats_file, us, partial_cg_root, bridges_root, bcg_root, augmented_cg_root,
            augstitched_cg_root>>

\* find_callgraphs: the paths of the unified call graphs in the order of rglob
fr_find_callgraphs ==
    /\ fr.pc = "init"
    /\ \E paths \in Arrangements(DOMAIN unified_cg_root, Cardinality(DOMAIN unified_cg_root)) :
          fr' = [fr EXCEPT !.pc = "process", !.cg_paths = paths]
    /\ UNCHANGED <<unified_cg_root, reached_cg_root, not_fr>>

\* process, one iteration of the loop over cg_paths: do_single runs reach()
\* and writes the reached graph; FullReachability_G skips a package whose
\* reached graph exists unless always is set; an exception of reach() leaves
\* the loop and process()
fr_do_single ==
    /\ fr.pc = "process"
    /\ fr.i <= Len(fr.cg_paths)
    /\ LET cg == fr.cg_paths[fr.i]
       IN  IF fr.github /\ reached_cg_root[cg] # Missing /\ ~ fr.always
           THEN /\ fr' = [fr EXCEPT !.i = @ + 1]
                /\ UNCHANGED reached_cg_root
           ELSE IF rd_raises(unified_cg_root[cg])
           THEN /\ fr' = [fr EXCEPT !.pc = "raised"]
                /\ UNCHANGED reached_cg_root
           ELSE /\ fr' = [fr EXCEPT !.i = @ + 1]
                /\ reached_cg_root' =
                      [reached_cg_root EXCEPT ![cg] = rd_reach(unified_cg_root[cg], cg)]
    /\ UNCHANGED <<unified_cg_root, not_fr>>

\* process returns after the last path
fr_return ==
    /\ fr.pc = "process"
    /\ fr.i > Len(fr.cg_paths)
    /\ fr' = [fr EXCEPT !.pc = "done"]
    /\ UNCHANGED <<unified_cg_root, reached_cg_root, not_fr>>

\* A corpus of up to MaxCorpus unified call graphs, well-formed or not; under
\* FullReachability_G the reached graph of a package may exist already.
BatchInit ==
    /\ \E n \in 1..MaxCorpus : \E pkgs \in { S \in SUBSET CorpusPackages : Cardinality(S) = n } :
          /\ unified_cg_root \in [pkgs -> CorpusDocs]
          /\ \E github \in BOOLEAN, always \in BOOLEAN :
                /\ fr = fr_new(github, always)
                /\ reached_cg_root \in
                      [pkgs -> IF github THEN { Missing, ExampleGraph } ELSE { Missing }]
    /\ us = Absent
    /\ partial_cg_root = None /\ bridges_root = None /\ bcg_root = None
    /\ augmented_cg_root = None /\ augstitched_cg_root = None
    /\ partial_cg_files = None /\ stitched_cg_file = None /\ socg_files = None
    /\ stats_file = None /\ unified_cg_file = None /\ reached_cg_file = None
    /\ st = Absent /\ un = Absent /\ rd = Absent /\ cc = Absent
    /\ bridges_file = None /\ augmented_cg_files = None /\ ag = Absent

BatchNext ==
    \/ fr_find_callgraphs
    \/ fr_do_single
    \/ fr_return

\* main of reachability.py: fr.process() over the corpus
BatchSpec == BatchInit /\ [][BatchNext]_vars

(***************************************************************************)
(* Properties of the reachability detector                                 *)
(***************************************************************************)
\* the ids of a node table
Ids(nodes) == { nodes[i].idx : i \in 1..Len(nodes) }

\* the ids of the nodes of a document whose package attribute is p
PackageNodes(cg, p) ==
    { cg.nodes[i].idx : i \in { j \in 1..Len(cg.nodes) : cg.nodes[j].package = p } }

\* there is a directed path of edges of E from a to b (of any length >= 0)
HasPath(E, N, a, b) ==
    \E k \in 1..(Cardinality(N) + 1) :
        \E p \in [1..k -> N] :
            /\ p[1] = a
            /\ p[k] = b
            /\ \A i \in 1..(k - 1) : <<p[i], p[i + 1]>> \in E

rd_after(steps) == rd.pc \in steps

\* C1: find_entrypoints leaves exactly the ids of the nodes whose package
\* attribute equals the application identity, shared names included.
C1_EntrypointsArePackageNodes ==
    rd_after({"find_entrypoints", "calculate_reachable", "done"}) =>
        rd.entrypoints = PackageNodes(unified_cg_file, rd.package)

\* C2: after calculate_reachable every input edge that leaves a reachable node
\* ends in a reachable node, and generate_final_callgraph logs no warning.
C2_ReachableClosed ==
    /\ rd_after({"calculate_reachable", "done"}) =>
          \A e \in unified_cg_file.edges :
              e[1] \in rd.reachable_idxs => e[2] \in rd.reachable_idxs
    /\ rd_after({"done"}) => rd.warnings = {}

\* a reachable node that is no entrypoint calls a further node
C2_Witness ==
    /\ rd.pc = "done"
    /\ \E e \in unified_cg_file.edges :
          /\ e[1] \in rd.reachable_idxs \ rd.entrypoints
          /\ e[2] \notin rd.entrypoints
          /\ e[2] # e[1]

\* C3: the graph reach() writes has exactly the input nodes that are entrypoints
\* (the set find_entrypoints left) or lie on a directed path from one, each with
\* its id and attributes, and exactly the input edges between those nodes.
C3_FinalCallgraphExact ==
    rd.pc = "done" =>
        LET cg == unified_cg_file
            R  == { n \in Ids(cg.nodes) :
                      \E s \in rd.entrypoints : HasPath(cg.edges, Ids(cg.nodes), s, n) }
        IN  /\ rd.final_callgraph.nodes = SelectSeq(cg.nodes, LAMBDA v : v.idx \in R)
            /\ rd.final_callgraph.edges = { e \in cg.edges : e[1] \in R /\ e[2] \in R }
            /\ reached_cg_file = rd.final_callgraph

\* the output keeps one node and one edge and drops another node and edge
C3_Witness ==
    /\ rd.pc = "done"
    /\ Len(rd.final_callgraph.nodes) > 0
    /\ Len(rd.final_callgraph.nodes) < Len(unified_cg_file.nodes)
    /\ rd.final_callgraph.edges # {}
    /\ rd.final_callgraph.edges # unified_cg_file.edges

\* C4: every entrypoint is in the reachable set and in the output node table.
C4_EntrypointsReachable ==
    /\ rd_after({"calculate_reachable", "done"}) => rd.entrypoints \subseteq rd.reachable_idxs
    /\ rd_after({"done"}) => rd.entrypoints \subseteq Ids(rd.final_callgraph.nodes)

\* an entrypoint without any incoming or outgoing edge is in the output
C4_Witness ==
    /\ rd.pc = "done"
    /\ \E s \in rd.entrypoints :
          /\ \A e \in unified_cg_file.edges : e[1] # s /\ e[2] # s
          /\ s \in Ids(rd.final_callgraph.nodes)

\* C21: when the application identity matches no node of the unified graph,
\* reach() raises nothing, every step of it can be taken, and the graph it
\* writes has no nodes and no edges.
C21_NoEntrypointsEmptyGraph ==
    PackageNodes(unified_cg_file, rd.package) = {} =>
        /\ ~ rd_raises(unified_cg_file)
        /\ rd.pc # "done" => ENABLED ReachNext
        /\ rd_after({"find_entrypoints", "calculate_reachable", "done"}) => rd.entrypoints = {}
        /\ rd_after({"calculate_reachable", "done"}) => rd.reachable_idxs = {}
        /\ rd.pc = "done" =>
              /\ rd.final_callgraph = [nodes |-> <<>>, edges |-> {}]
              /\ reached_cg_file = rd.final_callgraph

\* reach() is done on a graph with nodes and edges, none of the application
C21_Witness ==
    /\ rd.pc = "done"
    /\ PackageNodes(unified_cg_file, rd.package) = {}
    /\ Len(unified_cg_file.nodes) > 1
    /\ unified_cg_file.edges # {}
    /\ reached_cg_file.nodes = <<>>

(***************************************************************************)
(* Properties of the chain calculator                                      *)
(***************************************************************************)
\* the nodes of a document without incoming edge
Roots(cg) == { n \in Ids(cg.nodes) : \A e \in cg.edges : e[2] # n }

\* the positions of the nodes of a document that carry the name
Named(cg, name) == { i \in 1..Len(cg.nodes) : cg.nodes[i].name = name }

\* the node the target symbol denotes: the one node of that name, the last
\* of them in file order where several carry it
TargetNode(cg, name) ==
    cg.nodes[CHOOSE i \in Named(cg, name) : \A j \in Named(cg, name) : j <= i].idx

\* the roots from which the target is reached along directed edges
ReachingRoots(cg, name) ==
    { r \in Roots(cg) : HasPath(cg.edges, Ids(cg.nodes), r, TargetNode(cg, name)) }

\* p is a walk along edges of cg
IsWalk(cg, p) == \A i \in 1..(Len(p) - 1) : <<p[i], p[i + 1]>> \in cg.edges

\* some walk from a to b has fewer than n nodes
ShorterWalk(cg, a, b, n) ==
    \E k \in 1..(n - 1) :
        \E q \in [1..k -> Ids(cg.nodes)] : q[1] = a /\ q[k] = b /\ IsWalk(cg, q)

\* C5: with the target present, centrality is the number of roots that reach
\* the target over the number of roots, and there is one chain for each such
\* root and no other; in app.main -> app.helper -> dep.vuln it is 1/1.
C5_Centrality ==
    LET cg == reached_cg_file IN
    /\ (cc.pc \in {"find_callchains", "returned"} /\ Named(cg, cc.symbol) # {}) =>
          LET reaching == ReachingRoots(cg, cc.symbol)
          IN  /\ cc.centrality = Ratio(Cardinality(reaching), Cardinality(Roots(cg)))
              /\ Len(cc.call_chains) = Cardinality(reaching)
              /\ { cc.call_chains[i][1] : i \in 1..Len(cc.call_chains) } = reaching
              /\ cc.pc = "returned" => Len(cc.result) = Cardinality(reaching)
    /\ (cc.pc = "returned" /\ cg = ExampleGraph) => cc.centrality = Ratio(1, 1)

\* two roots, one of which reaches the target
C5_Witness ==
    /\ cc.pc = "returned"
    /\ Named(reached_cg_file, cc.symbol) # {}
    /\ Cardinality(Roots(reached_cg_file)) = 2
    /\ cc.centrality = Ratio(1, 2)
    /\ Len(cc.result) = 1

\* C6: whenever process() returns, 0 <= centrality <= 1.
C6_CentralityBounds ==
    cc.pc = "returned" =>
        /\ cc.centrality.den > 0
        /\ 0 <= cc.centrality.num
        /\ cc.centrality.num <= cc.centrality.den

\* a centrality strictly between 0 and 1
C6_Witness ==
    /\ cc.pc = "returned"
    /\ 0 < cc.centrality.num
    /\ cc.centrality.num < cc.centrality.den

\* C7: with the target present and no node without incoming edge, process()
\* returns no chains and leaves centrality 0.
C7_EmptyRootsCompletes ==
    (/\ cc.pc \in {"find_callchains", "returned", "raised"}
     /\ Named(reached_cg_file, cc.symbol) # {}
     /\ Roots(reached_cg_file) = {}) =>
        /\ cc.pc # "raised"
        /\ cc.exception = None
        /\ cc.centrality.num = 0
        /\ cc.pc = "returned" => cc.result = <<>>

\* C8: with no node of the target's name, process() returns the empty list,
\* raises nothing and leaves centrality 0.
C8_SymbolAbsent ==
    (/\ cc.pc \in {"create_graph", "find_callchains", "returned", "raised"}
     /\ Named(reached_cg_file, cc.symbol) = {}) =>
        /\ cc.pc \in {"create_graph", "returned"}
        /\ cc.exception = None
        /\ cc.centrality = Zero
        /\ cc.pc = "returned" => cc.result = <<>>

\* process() has returned for a graph with nodes and edges but not the target
C8_Witness ==
    /\ cc.pc = "returned"
    /\ Named(reached_cg_file, cc.symbol) = {}
    /\ Len(reached_cg_file.nodes) > 1
    /\ reached_cg_file.edges # {}
    /\ cc.result = <<>>

\* C9: every returned chain names a walk of the input graph from a root to the
\* target, caller before callee, and no walk from that root to the target has
\* fewer nodes.
C9_ChainsShortest ==
    cc.pc = "returned" /\ Named(reached_cg_file, cc.symbol) # {} =>
        LET cg == reached_cg_file
            t  == TargetNode(cg, cc.symbol)
        IN  /\ \A i \in 1..Len(cc.result) :
                  /\ \E j \in 1..Len(cc.call_chains) :
                        cc.result[i] = [k \in 1..Len(cc.call_chains[j]) |->
                                          cg.nodes[CHOOSE m \in 1..Len(cg.nodes) :
                                              cg.nodes[m].idx = cc.call_chains[j][k]].name]
                  /\ cc.result[i][Len(cc.result[i])] = cc.symbol
            /\ Len(cc.result) = Len(cc.call_chains)
            /\ \A j \in 1..Len(cc.call_chains) :
                  LET p == cc.call_chains[j]
                  IN  /\ p[1] \in Roots(cg)
                      /\ p[Len(p)] = t
                      /\ IsWalk(cg, p)
                      /\ ~ ShorterWalk(cg, p[1], t, Len(p))

\* a chain of at least one call is returned although a longer path exists
C9_Witness ==
    /\ cc.pc = "returned"
    /\ Named(reached_cg_file, cc.symbol) # {}
    /\ \E j \in 1..Len(cc.call_chains) :
          /\ Len(cc.call_chains[j]) >= 2
          /\ \E p \in SimplePaths(cc.graph, cc.call_chains[j][1], cc.symbol_idx) :
                Len(p) > Len(cc.call_chains[j])

(***************************************************************************)
(* Properties of the chains of a reached graph                             *)
(***************************************************************************)
\* the written reached graph has a node of the symbol
SymbolReached ==
    /\ rd.pc = "done"
    /\ \E v \in Range(reached_cg_file.nodes) : v.name = TargetSymbol

\* C28: for a reached graph written by the reachability detector that has a
\* node of the target symbol, the chain calculator returns at least one call
\* chain, so the application is listed as transitively vulnerable.
C28_ReachedSymbolChained ==
    (SymbolReached /\ cc.pc \in {"returned", "raised"}) =>
        /\ cc.pc = "returned"
        /\ vf_listed(cc.result)

\* the ids of the nodes of a document that no edge of it leads to
RootIds(callgraph) ==
    { v.idx : v \in { w \in Range(callgraph.nodes) :
                        \A e \in callgraph.edges : e[2] # w.idx } }

\* C29: in the graph reach() writes, every node without incoming edge is an
\* entrypoint, a node of the application; so the nodes without incoming edge
\* that the chain calculator counts on that graph are all entrypoints.
C29_RootsAreEntrypoints ==
    rd.pc = "done" =>
        /\ RootIds(reached_cg_file) \subseteq rd.entrypoints
        /\ \A v \in Range(reached_cg_file.nodes) :
              v.idx \in RootIds(reached_cg_file) => v.package = rd.package
        /\ (cc.pc \in {"find_callchains", "returned", "raised"} /\ cc.ret >= 0) =>
              { n \in Range(cc.graph.nodes) : OutDegree(Reverse(cc.graph), n) = 0 }
                  \subseteq rd.entrypoints

\* the reached graph has an entrypoint without incoming edge and a node that
\* is called, and the chain calculator counted the former
C29_Witness ==
    /\ rd.pc = "done"
    /\ cc.pc = "returned"
    /\ cc.num_leaves = 1
    /\ RootIds(reached_cg_file) # {}
    /\ RootIds(reached_cg_file) \subseteq rd.entrypoints
    /\ Len(reached_cg_file.nodes) > Cardinality(RootIds(reached_cg_file))

(***************************************************************************)
(* Properties of the stitch-and-unify pipeline                             *)
(***************************************************************************)
\* the nodes i and j of a written graph have the same name and the same owner
SameOwnedName(g, i, j) ==
    /\ g.nodes[i].name = g.nodes[j].name
    /\ \/ g.nodes[i].package # None /\ g.nodes[i].package = g.nodes[j].package
       \/ g.nodes[i].library # None /\ g.nodes[i].library = g.nodes[j].library

\* C10: in every unified graph produced by stitching the package documents and
\* then unifying with the native documents, no two distinct global ids carry
\* the same (name, package) pair or the same (name, library) pair.
C10_NodeUniqueness ==
    un.pc = "done" =>
        \A i, j \in 1..Len(unified_cg_file.nodes) :
            unified_cg_file.nodes[i].idx # unified_cg_file.nodes[j].idx
                => ~SameOwnedName(unified_cg_file, i, j)

\* the global ids of the unified graph are pairwise distinct, so the two
\* nodes of a shared pair are two ids
C10_IdsDistinct ==
    un.pc = "done" =>
        \A i, j \in 1..Len(unified_cg_file.nodes) :
            i # j => unified_cg_file.nodes[i].idx # unified_cg_file.nodes[j].idx

\* the native side alone keeps the pairs unique: ids that share a pair are
\* both package nodes
C10_NativeSideUnique ==
    un.pc = "done" =>
        \A i, j \in 1..Len(unified_cg_file.nodes) :
            (i # j /\ SameOwnedName(unified_cg_file, i, j))
                => unified_cg_file.nodes[i].package # None

\* the ids of a node table
TableIds(nodes) == { nodes[i].idx : i \in 1..Len(nodes) }

\* a node table of N nodes holds exactly the ids 0..N-1, one node per id, and
\* the counter stands at N
SequentialIds(nodes, next_index) ==
    /\ TableIds(nodes) = 0..(Len(nodes) - 1)
    /\ \A i, j \in 1..Len(nodes) : i # j => nodes[i].idx # nodes[j].idx
    /\ next_index = Len(nodes)

\* C11: in the stitcher and in the unifier the global ids come from a counter
\* that only increases: after any sequence of node additions the ids of the
\* node table are exactly 0..N-1 for N nodes, no id is given to two nodes and
\* none is reused; native and package nodes never receive the same id.
C11_SequentialIds ==
    /\ SequentialIds(st.final_nodes, st.next_index)
    /\ SequentialIds(un.final_nodes, un.next_index)
    /\ un.pc = "done" => TableIds(unified_cg_file.nodes) = 0..(un.next_index - 1)

\* a unified graph with native and package nodes, where a native name of a
\* second document was folded into the node of the first
C11_Witness ==
    /\ un.pc = "done"
    /\ Len(socg_files) = 2
    /\ \E i, j \in 1..Len(unified_cg_file.nodes) :
          /\ unified_cg_file.nodes[i].library # None
          /\ unified_cg_file.nodes[j].package # None
    /\ Len(st.final_nodes) >= 3
    /\ Len(un.final_nodes) < Len(st.final_nodes)
                             + Len(socg_files[1].nodes) + Len(socg_files[2].nodes)

\* the names of the nodes of a native document
DocNames(doc) == { doc.nodes[i].name : i \in 1..Len(doc.nodes) }

\* the name of the node of a native document with the local id k
DocName(doc, k) == (CHOOSE v \in Range(doc.nodes) : v.idx = k).name

\* the number of edges of a native document that leave a node of the name
EdgeCount(doc, name) ==
    Cardinality({ i \in 1..Len(doc.edges) : DocName(doc, doc.edges[i][1]) = name })

\* the positions in socg_files of the documents that define the name
DocsWith(name) == { i \in 1..Len(socg_files) : name \in DocNames(socg_files[i]) }

\* the libraries that the bridges of the package documents name for a symbol
BridgeLibraries(name) ==
    { b.library : b \in UNION { Range(vn.metadata.bridges) :
                      vn \in { v \in UNION { Range(doc.internal) : doc \in partial_cg_files } :
                                 "bridges" \in DOMAIN v.metadata } }
                  \cap { [symbol |-> name, library |-> l] : l \in {LibA, LibB} } }

\* the native nodes of the unified graph
NativeNodes == { v \in Range(unified_cg_file.nodes) : v.library # None }

\* C12: decide_final_libs gives a native name that no bridge targets the
\* library whose own document has the fewest edges leaving that name, and on
\* a tie the library whose document was merged first.
C12_SmallestEgress ==
    un.pc = "done" =>
        \A v \in NativeNodes :
            BridgeLibraries(v.name) = {} =>
                \E i \in DocsWith(v.name) :
                    /\ v.library = socg_files[i].library
                    /\ \A j \in DocsWith(v.name) :
                          \/ EdgeCount(socg_files[i], v.name) < EdgeCount(socg_files[j], v.name)
                          \/ /\ EdgeCount(socg_files[i], v.name) = EdgeCount(socg_files[j], v.name)
                             /\ i <= j

\* foo has 3 outgoing edges in the library merged first and fewer in the one
\* merged second, no bridge targets it, and the second library owns it
C12_Witness ==
    /\ un.pc = "done"
    /\ Len(socg_files) = 2
    /\ BridgeLibraries(<< "foo" >>) = {}
    /\ DocsWith(<< "foo" >>) = {1, 2}
    /\ EdgeCount(socg_files[1], << "foo" >>) = 3
    /\ EdgeCount(socg_files[2], << "foo" >>) = 1
    /\ \E v \in NativeNodes : v.name = << "foo" >> /\ v.library = socg_files[2].library

\* C13: if the bridges of the package nodes name exactly one library C for a
\* symbol that exists in the native graphs, the final library of the symbol is
\* C, whatever counts the other libraries record and whatever the merge order.
C13_BridgedLibraryOwns ==
    un.pc = "done" =>
        \A v \in NativeNodes :
            \A c \in {LibA, LibB} :
                BridgeLibraries(v.name) = {c} => v.library = c

\* a bridge names foo of libB.so, whose document has more edges leaving foo
\* than the document of libA.so merged before it, and libB.so owns foo
C13_Witness ==
    /\ un.pc = "done"
    /\ BridgeLibraries(<< "foo" >>) = {LibB}
    /\ Len(socg_files) = 2
    /\ socg_files[1].library = LibA
    /\ DocsWith(<< "foo" >>) = {1, 2}
    /\ EdgeCount(socg_files[1], << "foo" >>) = 0
    /\ EdgeCount(socg_files[2], << "foo" >>) > 0
    /\ \E v \in NativeNodes : v.name = << "foo" >> /\ v.library = LibB

\* the (name, library) pairs of the native nodes of a unified graph
LibraryOwners(g) == { << v.name, v.library >> : v \in { w \in Range(g.nodes) : w.library # None } }

\* C14: for the same set of native documents and the same bridge metadata,
\* unify() gives every native name the same library on every run, also when
\* the documents are supplied in another order.
C14_OwnershipOrderIndependent ==
    un.pc = "done" =>
        \A socgs \in Arrangements(Range(socg_files), Len(socg_files)) :
            LibraryOwners(un_unify(stitched_cg_file, socgs)) = LibraryOwners(unified_cg_file)

\* a second run over the same documents in the same order agrees with the first
C14_SameOrderAgrees ==
    un.pc = "done" => un_unify(stitched_cg_file, socg_files) = unified_cg_file

\* the bridges of a node of the stitched graph
NodeBridges(v) ==
    IF v.metadata.bridges = NoneList THEN {} ELSE Range(v.metadata.bridges.list)

\* the edges of a unified graph
UnifiedEdges == Range(unified_cg_file.edges)

\* the number of bridge records of the stitched graph that satisfy P
BridgeCount(P(_)) ==
    LET RECURSIVE sum(_)
        sum(i) == IF i > Len(stitched_cg_file.nodes) THEN 0
                  ELSE (IF stitched_cg_file.nodes[i].metadata.bridges = NoneList THEN 0
                        ELSE Len(SelectSeq(stitched_cg_file.nodes[i].metadata.bridges.list, P)))
                       + sum(i + 1)
    IN  sum(1)

\* the number of edges of the native documents handed to the unifier
NativeEdgeCount ==
    LET RECURSIVE sum(_)
        sum(i) == IF i > Len(socg_files) THEN 0 ELSE Len(socg_files[i].edges) + sum(i + 1)
    IN  sum(1)

\* C22: for every node of the stitched graph that carries a bridge whose
\* symbol some native document contains, the unified graph has an edge from
\* that node to the node of that name, which a library owns and no package;
\* a bridge whose symbol no native document contains adds no edge, and
\* unify() completes.
C22_BridgeEdges ==
    un.pc = "done" =>
        /\ \A v \in Range(stitched_cg_file.nodes) : \A b \in NodeBridges(v) :
              DocsWith(b.symbol) # {} =>
                  \E t \in Range(unified_cg_file.nodes) :
                      /\ t.name = b.symbol
                      /\ t.library # None
                      /\ << un.old2new[v.idx], t.idx >> \in UnifiedEdges
        /\ Len(unified_cg_file.edges) =
              NativeEdgeCount + Len(stitched_cg_file.edges)
                  + BridgeCount(LAMBDA b : DocsWith(b.symbol) # {})

\* C30: after unify() the library recorded on every native node is that of a
\* native document that has a node of the symbol, also when a bridge names a
\* library for the symbol.
C30_LibraryHasSymbol ==
    un.pc = "done" =>
        \A v \in NativeNodes :
            \E k \in DocsWith(v.name) : socg_files[k].library = v.library

(***************************************************************************)
(* Properties of the augmentor                                             *)
(***************************************************************************)
\* the namespaces of a document with a bridge list that holds an entry twice
DuplicateBridges(cg) ==
    { n \in UNION { Range(cg.internal[k].namespaces) : k \in 1..Len(cg.internal) } :
        /\ "bridges" \in DOMAIN n.metadata
        /\ \E x, y \in 1..Len(n.metadata.bridges) :
              x # y /\ n.metadata.bridges[x] = n.metadata.bridges[y] }

\* C15: augmentation is idempotent: from the documents of any point of a run,
\* applying an internal or an external bridge record twice leaves the same
\* documents (namespaces, bridge lists, node counts) as applying it once, and
\* no bridge list ever holds an entry twice.
C15_AugmentIdempotent ==
    ag.pc \in {"augment", "done"} =>
        /\ \A b \in InternalBridges :
              ag_written(ApplyInternal(ag, augmented_cg_files, << b, b >>), augmented_cg_files)
                  = ag_written(ApplyInternal(ag, augmented_cg_files, << b >>), augmented_cg_files)
        /\ \A b \in ExternalBridges :
              ag_written(ApplyExternal(ag, augmented_cg_files, << b, b >>), augmented_cg_files)
                  = ag_written(ApplyExternal(ag, augmented_cg_files, << b >>), augmented_cg_files)
        /\ \A p \in DOMAIN augmented_cg_files :
              ag_written(ag, augmented_cg_files)[p] # Missing
                  => DuplicateBridges(ag_written(ag, augmented_cg_files)[p]) = {}

\* a run applied one external record twice: the first application made a
\* namespace and its module, the second found that namespace, and the
\* written document has the two new nodes only
C15_Witness ==
    /\ ag.pc = "done"
    /\ Len(bridges_file.external) = 2
    /\ bridges_file.external[1] = bridges_file.external[2]
    /\ ag.created_internals = 1
    /\ ag.found_internals = 1
    /\ bridges_file.internal = <<>>
    /\ augmented_cg_files[DepPackage].nodes = 4
    /\ Len(augmented_cg_files[DepPackage].internal) = 2

\* the positions (module, position in the module) of the namespaces of a document
Positions(cg) ==
    { << k, kk >> \in (1..Len(cg.internal)) \X (1..(cg.nodes + 2)) :
        kk \in 1..Len(cg.internal[k].namespaces) }

\* the indices the namespaces of a document use
Indices(cg) == { cg.internal[p[1]].namespaces[p[2]].idx : p \in Positions(cg) }

\* the node count of a document is the number of its namespaces, which are
\* indexed 0..count-1
Dense(cg) ==
    /\ Cardinality(Positions(cg)) = cg.nodes
    /\ Indices(cg) = 0..(cg.nodes - 1)

\* the external bridge the loop of augment() is at
NextExternal == ag.bridges.external[ag.j]

\* the loop of augment() is at an external bridge of a known package whose
\* document exists and has no namespace that matches the bridge
Unmatched ==
    /\ ag.pc = "augment"
    /\ ag.i > Len(ag.bridges.internal)
    /\ ag.j <= Len(ag.bridges.external)
    /\ pyname_to_tl_external(NextExternal.pyname) \in DOMAIN tl2pkg
    /\ LET tl == pyname_to_tl_external(NextExternal.pyname)
           cg == ag_open(ag, augmented_cg_files, tl2pkg[tl])
       IN  /\ cg # Missing
           /\ \A p \in Positions(cg) :
                 ~ ag_external_match(cg.internal[p[1]].namespaces[p[2]],
                                     pyname_to_squash_external(NextExternal.pyname),
                                     pkg2tl(tl2pkg[tl]), tl)

\* C25: when an external bridge matches no internal namespace of the document
\* of the owning package, and the node count of the document is the number of
\* its namespaces, indexed 0..count-1, the step adds a namespace that carries
\* the bridge under the module '/<top-level>/' with an index no namespace of
\* the document used, and the node count grows by the number of namespaces
\* added: two when the module is created too, otherwise one.
C25_NewNamespaceFresh ==
    [][ Unmatched =>
          LET tl == pyname_to_tl_external(NextExternal.pyname)
              pkg == tl2pkg[tl]
              modname == << "/" >> \o tl \o << "/" >>
              cg == ag_open(ag, augmented_cg_files, pkg)
              after == ag'.cg_path2cg[pkg]
              known == \E k \in 1..Len(cg.internal) : cg.internal[k].name = modname
              added == Cardinality(Positions(after)) - Cardinality(Positions(cg))
          IN  Dense(cg) =>
                /\ \E p \in Positions(after) :
                      LET n == after.internal[p[1]].namespaces[p[2]]
                      IN  /\ after.internal[p[1]].name = modname
                          /\ n.metadata = [bridges |-> << simple_bridge(NextExternal) >>]
                          /\ n.idx \notin Indices(cg)
                          /\ \A q \in Positions(after) \ { p } :
                                after.internal[q[1]].namespaces[q[2]].idx # n.idx
                /\ added = IF known THEN 1 ELSE 2
                /\ after.nodes = cg.nodes + added
                /\ Dense(after) ]_vars

\* two namespaces were made in the document of the dependency, the first with
\* its module and the second in that module
C25_Witness ==
    /\ ag.pc = "done"
    /\ ag.created_internals = 2
    /\ augmented_cg_files[DepPackage] # Missing
    /\ augmented_cg_files[DepPackage].nodes = 5
    /\ Dense(augmented_cg_files[DepPackage])

\* the top-level import name of the bridge is that of a known package
KnownTopLevel(bridge) == pyname_to_tl_external(bridge.pyname) \in DOMAIN tl2pkg

\* C26: an external bridge whose caller name maps to no known top-level import
\* name is dropped: its step changes no document, cached or written, and the
\* loop goes on to the next bridge; the documents written at the end are those
\* of the run over the list without such bridges.
C26_UnknownTopLevelDropped ==
    [][ /\ ( /\ ag.pc = "augment"
             /\ ag.i > Len(ag.bridges.internal)
             /\ ag.j <= Len(ag.bridges.external)
             /\ ~ KnownTopLevel(NextExternal) )
           => /\ ag' = [ag EXCEPT !.j = ag.j + 1]
              /\ augmented_cg_files' = augmented_cg_files
        /\ (ag.pc = "augment" /\ ag'.pc = "done")
           => augmented_cg_files' =
                 ag_augment(augmented_cg_files,
                            [internal |-> ag.bridges.internal,
                             external |-> SelectSeq(ag.bridges.external, KnownTopLevel)],
                            ag.given_package) ]_vars

\* a run over a bridge of no known package and then a bridge of the
\* dependency, which made a namespace in the document of the dependency
C26_Witness ==
    /\ ag.pc = "done"
    /\ Len(ag.bridges.external) = 2
    /\ ~ KnownTopLevel(ag.bridges.external[1])
    /\ KnownTopLevel(ag.bridges.external[2])
    /\ ag.created_internals = 1
    /\ augmented_cg_files[DepPackage] # Missing
    /\ augmented_cg_files[DepPackage].nodes > 2

(***************************************************************************)
(* Properties of the resolution of external calls                          *)
(***************************************************************************)
\* the names of the nodes of the stitched graph
StitchedNames == { st.final_nodes[i].URI : i \in 1..Len(st.final_nodes) }

\* the namespace of the callee of an external call of a document
CalleeNamespace(cg, call) == (CHOOSE vn \in Range(cg.external) : vn.idx = call[2]).namespace

\* the callee is a builtin, or its name starts with a standard-library module
\* prefix or holds a known-unreliable prefix
Denied(cg, call) ==
    LET ns == CalleeNamespace(cg, call)
        extname == SplitLast(ns, "//")
    IN  \/ ns[1] = "//" /\ ns[2] = ".builtin"
        \/ \E m \in STD_MODULES : StartsWith(extname, m \o << "." >>)
        \/ \E pref \in BUGGY_PREFIXES : Contains(extname, pref)

\* the external call is resolved to at least one node of the stitched graph
ResolvedCall(cg, call) ==
    /\ ~Denied(cg, call)
    /\ \E dname \in Range(st_possible_names(CalleeNamespace(cg, call))) :
          \E name \in Range(st_options(dname)) : name \in StitchedNames

\* the positions of the external calls of a document that satisfy P
CallsWhere(cg, P(_, _)) == { k \in 1..Len(cg.externalCalls) : P(cg, cg.externalCalls[k]) }

MissedCall(cg, call) == ~Denied(cg, call) /\ ~ResolvedCall(cg, call)

\* C16: after stitch(), every package document with at least one external
\* call has a statistics record with total = the number of its externalCalls
\* edges, found = the number of them resolved to at least one node, missed =
\* the number neither ignored nor resolved, which_missed = the missed names.
C16_ExternalStats ==
    st.pc = "done" =>
        \A cg \in partial_cg_files :
            cg.externalCalls # <<>> =>
                LET package == PackageId(cg.product, cg.version)
                IN  /\ package \in DOMAIN stats_file
                    /\ stats_file[package].total = Len(cg.externalCalls)
                    /\ stats_file[package].found = Cardinality(CallsWhere(cg, ResolvedCall))
                    /\ stats_file[package].missed = Cardinality(CallsWhere(cg, MissedCall))
                    /\ stats_file[package].which_missed =
                          { SplitLast(CalleeNamespace(cg, cg.externalCalls[k]), "//") :
                              k \in CallsWhere(cg, MissedCall) }

\* the counters of the stitcher, unlike the records, count every call
C16_CountersExact ==
    st.pc = "done" =>
        /\ st.num_externals_found =
              Cardinality({ << cg, k >> \in partial_cg_files \X (1..MaxExternalCalls) :
                               k \in CallsWhere(cg, ResolvedCall) })
        /\ st.num_externals_missed =
              Cardinality({ << cg, k >> \in partial_cg_files \X (1..MaxExternalCalls) :
                               k \in CallsWhere(cg, MissedCall) })

\* the stitcher after add_internal over the documents it has loaded
AfterAddInternal == st_add_internal([st_new EXCEPT !.cgs = st.cgs], st.cgs, 1)

\* the documents without the external calls whose callee is denied
WithoutDenied(cgs) ==
    [i \in 1..Len(cgs) |->
        [cgs[i] EXCEPT !.externalCalls =
            SelectSeq(cgs[i].externalCalls, LAMBDA call : ~Denied(cgs[i], call))]]

\* the number of external calls of the loaded documents whose callee is denied
DeniedCalls ==
    Cardinality({ << i, k >> \in (1..Len(st.cgs)) \X (1..MaxExternalCalls) :
                     /\ k <= Len(st.cgs[i].externalCalls)
                     /\ Denied(st.cgs[i], st.cgs[i].externalCalls[k]) })

\* C17: an external call whose callee is a builtin, matches a standard-library
\* module prefix or a known-unreliable prefix adds no edge and raises neither
\* the found nor the missed count: the edges and the counts are those of the
\* documents without these calls, and each such call is counted as ignored.
C17_DeniedCallsIgnored ==
    st.pc \in {"resolve_externals", "done"} =>
        LET without == st_resolve_externals(AfterAddInternal, WithoutDenied(st.cgs), 1)
        IN  /\ st.final_edges = without.final_edges
            /\ st.num_externals_found = without.num_externals_found
            /\ st.num_externals_missed = without.num_externals_missed
            /\ st.num_externals_ignored = DeniedCalls
            /\ without.num_externals_ignored = 0
            /\ DOMAIN st.external_stats = DOMAIN without.external_stats
            /\ \A p \in DOMAIN st.external_stats :
                  /\ st.external_stats[p].found = without.external_stats[p].found
                  /\ st.external_stats[p].missed = without.external_stats[p].missed

\* the application calls a standard-library function and then a function of
\* the dependency: one call ignored, one found, one edge more than the
\* internal call
C17_Witness ==
    /\ st.pc = "done"
    /\ \E cg \in partial_cg_files : cg.externalCalls = << <<0, 7>>, <<0, 2>> >>
    /\ DepExternalDoc \in partial_cg_files
    /\ st.num_externals_ignored = 1
    /\ st.num_externals_found = 1
    /\ Len(st.final_edges) = 2

\* the edges of the stitcher
StitchedEdges == Range(st.final_edges)

\* the name N of a callee name of the form N.m, m a string-method name
BeforeMethod(extname, m) == SubSeq(extname, 1, Len(extname) - Len(m) - 1)

\* C23: an external call that is not denied and whose callee name is N
\* followed by '.' and a string-method name, where N is the name of a node
\* and the full name is the name of none, is resolved to the node N: the edge
\* from the caller to N is added and the call is not recorded as missed.
C23_StringMethodStripped ==
    st.pc \in {"resolve_externals", "done"} =>
        \A cg \in partial_cg_files : \A k \in 1..Len(cg.externalCalls) :
            LET call == cg.externalCalls[k]
                extname == SplitLast(CalleeNamespace(cg, call), "//")
                package == PackageId(cg.product, cg.version)
            IN  \A i \in 1..Len(STR_METHOD_SUFFIXES) :
                    LET m == STR_METHOD_SUFFIXES[i]
                        N == BeforeMethod(extname, m)
                    IN  (/\ ~ Denied(cg, call)
                         /\ EndsWith(extname, << "." >> \o m)
                         /\ N \in StitchedNames
                         /\ extname \notin StitchedNames)
                        => /\ << st.old2new[package][call[1]], st.n2idx[N] >> \in StitchedEdges
                           /\ extname \notin st.pynames_not_found

\* the node name of the namespace of a document with the local id k
LocalName(cg, k) == st_newname((CHOOSE vn \in Range(cg.internal) : vn.idx = k).namespace)

\* the namespaces of a document that are named like the constructor of the
\* callee of an internal call
InitNamespaces(cg, call) ==
    { vn \in Range(cg.internal) :
        st_newname(vn.namespace) = LocalName(cg, call[2]) \o DotInit }

\* C24: for every internalCalls edge (s, d) of a package document the
\* stitched graph has the edge (global(s), global(d)), and whenever the same
\* document has an internal namespace named name(d) + '.__init__' it also has
\* an edge from global(s) to the global id of that namespace.
C24_InternalCallEdges ==
    st.pc \in {"add_internal", "resolve_externals", "done"} =>
        \A cg \in partial_cg_files : \A k \in 1..Len(cg.internalCalls) :
            LET call == cg.internalCalls[k]
                global == st.old2new[PackageId(cg.product, cg.version)]
            IN  /\ << global[call[1]], global[call[2]] >> \in StitchedEdges
                /\ InitNamespaces(cg, call) # {} =>
                      \E vn \in InitNamespaces(cg, call) :
                          << global[call[1]], global[vn.idx] >> \in StitchedEdges

\* a document whose class a.f is called by its own constructor
\* a.f.__init__: the call gets its edge and the edge to the constructor
C24_Witness ==
    /\ st.pc = "done"
    /\ \E cg \in partial_cg_files :
          /\ Len(cg.internalCalls) = 1
          /\ InitNamespaces(cg, cg.internalCalls[1]) # {}
          /\ cg.internalCalls[1][1] # cg.internalCalls[1][2]
          /\ partial_cg_files = { cg }
    /\ Len(st.final_edges) = 2
    /\ st.final_edges[1] # st.final_edges[2]

\* the number of calls of pyname_to_fqn for a name
LookupCount(dname) ==
    Cardinality({ i \in 1..Len(st.fqn_lookups) : st.fqn_lookups[i] = dname })

\* the document has an external call to the namespace
CallsNamespace(cg, ns) ==
    \E k \in 1..Len(cg.externalCalls) : \E vn \in Range(cg.external) :
        vn.idx = cg.externalCalls[k][2] /\ vn.namespace = ns

\* C27: during one stitch pass pyname_to_fqn is called at most once for every
\* distinct candidate name, across all external calls and all packages, also
\* for the names it found no fully qualified name for.
C27_LookupOncePerName ==
    st.pc \in {"resolve_externals", "done"} =>
        \A i, j \in 1..Len(st.fqn_lookups) :
            st.fqn_lookups[i] = st.fqn_lookups[j] => i = j

\* the application and the dependency both call q.x, for which no fully
\* qualified name is found, and the application calls it twice
C27_Witness ==
    /\ st.pc = "done"
    /\ Len(st.cgs) = 2
    /\ \A k \in 1..2 : CallsNamespace(st.cgs[k], << "//", "q", "//", "q", ".", "x" >>)
    /\ \E k \in 1..2 : /\ Len(st.cgs[k].externalCalls) = 2
                       /\ st.cgs[k].externalCalls[1] = st.cgs[k].externalCalls[2]
    /\ << "q", ".", "x" >> \in DOMAIN st.n2fqn
    /\ st.n2fqn[<< "q", ".", "x" >>] = FqnNone
    /\ LookupCount(<< "q", ".", "x" >>) = 1

(***************************************************************************)
(* Properties of the tasks of the pipeline                                 *)
(***************************************************************************)
\* the task p has loaded its dependencies and process() has returned
Returned(p) == us[p].pc = "returned" /\ us[p].deps # <<>>

\* a declared dependency of p has no partial call graph
MissingPartialCg(p) == \E k \in 1..Len(us[p].deps) : partial_cg_root[us[p].deps[k]] = Missing

\* a library of a declared dependency of p has no native call graph
MissingNativeCg(p) ==
    \E k \in 1..Len(us[p].all_libs) :
        bcg_root[bcg_path(FirstComp2Pkg(p)[SplitFirst(us[p].all_libs[k], "/")],
                          us[p].all_libs[k])] = Missing

\* the packages that have nodes in a unified graph
UnifiedPackages(cg) == { cg.nodes[k].package : k \in 1..Len(cg.nodes) } \ { None }

\* C18: when the partial call graph of a declared dependency, or the native
\* call graph of one of its libraries, is missing, the task skips that
\* document and process() still writes a unified graph, which holds the
\* nodes of the application.
C18_MissingDocumentSkipped ==
    \A p \in Applications :
        Returned(p) /\ (MissingPartialCg(p) \/ MissingNativeCg(p))
            => /\ unified_cg_root[p] # Missing
               /\ p \in UnifiedPackages(unified_cg_root[p])

\* C19: no step of a task creates or rewrites a document that the tasks of
\* two applications share: the bridges document of the dependency and the
\* native call graphs of its libraries stay as they were when the tasks began.
C19_SharedDocumentsReadOnly ==
    [][ /\ bridges_root'[DepPackage] = bridges_root[DepPackage]
        /\ bcg_root' = bcg_root ]_vars

(***************************************************************************)
(* Properties of the batch driver                                          *)
(***************************************************************************)
\* process() is over: it returned, or an exception left it
Finished == fr.pc \in { "done", "raised" }

\* the packages of the corpus whose unified call graph is well-formed
WellFormed == { cg \in DOMAIN unified_cg_root : ~ rd_raises(unified_cg_root[cg]) }

\* C20: a package whose unified call graph is malformed, or whose reach()
\* raises, does not stop the batch: when process() is over, every package of
\* the corpus with a well-formed document has its reached graph.
C20_BatchContinues ==
    Finished => \A cg \in WellFormed : reached_cg_root[cg] # Missing

====
